---- MODULE Spec2Model ----
(***************************************************************************)
(* PuzzleCore (src/src/js/education/skillTracker.js): the puzzle           *)
(* evaluator of ChessGuerilla, together with the chess.js rules engine it  *)
(* drives.  Strings that the code builds, cuts and compares (squares, move *)
(* notations, promotion pieces) are sequences of one-character strings, so *)
(* that from + to + promotion is \o and substring is SubSeq.               *)
(*                                                                         *)
(* SkillTracker (same file) and the UserSkillProfile it owns               *)
(* (src/unnamed/part_001): the rating, the theme statistics, the           *)
(* recommendations and the milestones.  Objects whose key order the code   *)
(* relies on (themePerformance) are sequences of entries in insertion      *)
(* order.  The rating change is computed in the Number arithmetic of       *)
(* JavaScript, binary64 with round-to-nearest-even.                        *)
(*                                                                         *)
(* Spec is the PuzzleCore, TrackerSpec the SkillTracker with its profile,  *)
(* RatingSpec one rating calculation of UserSkillProfile.updateAfterPuzzle *)
(* for each of a set of arguments.                                         *)
(***************************************************************************)
EXTENDS Integers, Sequences, FiniteSets, TLC

\* ------------------------------------------------------------------ bounds
\* getHint is not offered once a puzzle object's hintCount reached MaxHints
MaxHints == 4
\* a move that would append to puzzleHistory is not offered at MaxSolved
MaxSolved == 1
\* the tracker is not updated more than MaxUpdates times
MaxUpdates == 2

\* ------------------------------------------------------- JavaScript values
Null == "null"
\* the value of an argument that was not passed (or passed as undefined)
Undefined == <<"undefined">>
\* the empty string ''
EmptyString == <<>>
\* the promotion values a caller passes: nothing, '', 'q', 'n'
PromotionArgs == {Undefined, EmptyString, <<"q">>, <<"n">>}

\* ------------------------------------------------------------ rules engine
\* the squares of the board the puzzles below are played on
e2 == <<"e", "2">>
e4 == <<"e", "4">>
e5 == <<"e", "5">>
e7 == <<"e", "7">>
e8 == <<"e", "8">>
f1 == <<"f", "1">>
c4 == <<"c", "4">>
f3 == <<"f", "3">>
d6 == <<"d", "6">>
d7 == <<"d", "7">>
c6 == <<"c", "6">>
b7 == <<"b", "7">>
\* the squares the short lines are played on
LineSquares == {e2, e4, e5, e7, e8, f1, c4}
\* the further squares the stored puzzle fork-medium-1 is played on
ForkSquares == {f3, d6, d7, c6, b7}
Squares == LineSquares \cup ForkSquares

NoPiece == [type |-> "none", color |-> "none"]
Pc(t, c) == [type |-> t, color |-> c]
\* a board holds the squares its puzzle is played on
EmptyBoard == [s \in LineSquares |-> NoPiece]
EmptyForkBoard == [s \in Squares |-> NoPiece]

\* chess.js generate_moves, cut down to the squares above: the pawn pushes
\* and captures, the bishop lines and the knight hops that lead from one of
\* them to another; king and queen moves are not generated
PawnPushes(color) ==
    IF color = "w" THEN {<<e2, e4>>, <<e4, e5>>, <<e7, e8>>, <<d6, d7>>}
                   ELSE {<<e7, e5>>, <<e5, e4>>, <<d7, d6>>}
PawnCaptures(color) ==
    IF color = "w"
    THEN {<<e2, f3>>, <<e5, d6>>, <<f1, e2>>, <<f3, e4>>, <<d6, e7>>,
          <<d7, e8>>, <<c6, b7>>, <<c6, d7>>}
    ELSE {<<e2, f1>>, <<e4, f3>>, <<e7, d6>>, <<e8, d7>>, <<f3, e2>>,
          <<d6, e5>>, <<d7, c6>>, <<b7, c6>>}
OneWayLines == {<<f1, e2>>, <<f1, c4>>, <<e2, c4>>, <<e2, f3>>, <<f3, e4>>,
                <<f3, c6>>, <<f3, b7>>, <<e4, c6>>, <<e4, b7>>, <<c6, b7>>,
                <<e5, d6>>, <<d6, e7>>, <<c6, d7>>, <<c6, e8>>, <<d7, e8>>}
BishopLines == OneWayLines \cup {<<line[2], line[1]>> : line \in OneWayLines}
OneWayHops == {<<f3, e5>>, <<c4, e5>>, <<c4, d6>>, <<e4, d6>>, <<e5, c6>>,
               <<e5, d7>>, <<d6, e8>>, <<d6, b7>>, <<c6, e7>>}
KnightHops == OneWayHops \cup {<<hop[2], hop[1]>> : hop \in OneWayHops}
\* the modelled squares a bishop passes over
Between(from, to) ==
    IF <<from, to>> \in {<<f1, c4>>, <<c4, f1>>} THEN {e2}
    ELSE IF <<from, to>> \in {<<f3, c6>>, <<c6, f3>>} THEN {e4}
    ELSE IF <<from, to>> \in {<<e4, b7>>, <<b7, e4>>} THEN {c6}
    ELSE IF <<from, to>> \in {<<f3, b7>>, <<b7, f3>>} THEN {e4, c6}
    ELSE IF <<from, to>> \in {<<c6, e8>>, <<e8, c6>>} THEN {d7}
    ELSE {}
PromotionPieces == {<<"q">>, <<"r">>, <<"b">>, <<"n">>}
LastRank(color) == IF color = "w" THEN "8" ELSE "1"

\* a pawn reaching its last rank: chess.js generates one move per piece
IsPromotion(engine, from, to) ==
    /\ engine.board[from].type = "p"
    /\ to[2] = LastRank(engine.board[from].color)

\* chess.js move({from, to, promotion}): the move is found among the
\* generated moves; promotion is compared only for promotion moves
EngineLegal(engine, from, to, promotion) ==
    /\ from \in DOMAIN engine.board
    /\ to \in DOMAIN engine.board
    /\ engine.board[from].color = engine.turn
    /\ \/ /\ engine.board[from].type = "p"
          /\ <<from, to>> \in PawnPushes(engine.turn)
          /\ engine.board[to] = NoPiece
       \/ /\ engine.board[from].type = "p"
          /\ <<from, to>> \in PawnCaptures(engine.turn)
          /\ engine.board[to].color \notin {engine.turn, "none"}
       \/ /\ engine.board[from].type = "b"
          /\ <<from, to>> \in BishopLines
          /\ engine.board[to].color # engine.turn
          /\ \A s \in Between(from, to) : engine.board[s] = NoPiece
       \/ /\ engine.board[from].type = "n"
          /\ <<from, to>> \in KnightHops
          /\ engine.board[to].color # engine.turn
    /\ IsPromotion(engine, from, to) => promotion \in PromotionPieces

OtherSide(color) == IF color = "w" THEN "b" ELSE "w"

\* chess.js make_move: the position before the move is kept for undo()
EngineMove(engine, from, to, promotion) ==
    LET piece == engine.board[from]
        placed == IF IsPromotion(engine, from, to)
                  THEN Pc(promotion[1], piece.color) ELSE piece
    IN [board |-> [engine.board EXCEPT ![from] = NoPiece, ![to] = placed],
        turn |-> OtherSide(engine.turn),
        history |-> Append(engine.history,
                           [board |-> engine.board, turn |-> engine.turn])]

\* chess.js make_pretty: the move object move() returns; promotion is set
\* only on a promotion move
PrettyMove(engine, from, to, promotion) ==
    [from |-> from, to |-> to,
     promotion |-> IF IsPromotion(engine, from, to) THEN promotion ELSE <<>>]

\* chess.js undo(): back to the position before the last move, if any
EngineUndo(engine) ==
    IF engine.history = <<>> THEN engine
    ELSE LET n == Len(engine.history)
         IN [board |-> engine.history[n].board,
             turn |-> engine.history[n].turn,
             history |-> SubSeq(engine.history, 1, n - 1)]

\* chess.js load(fen): the position is replaced, the undo history dropped
EngineLoad(fen) == [board |-> fen.board, turn |-> fen.turn, history |-> <<>>]

\* chess.js fen(): the position string
EngineFen(engine) == [board |-> engine.board, turn |-> engine.turn]

\* chess.js get(square): the piece on the square, or null
EngineGet(engine, square) ==
    IF square \in DOMAIN engine.board THEN engine.board[square] ELSE NoPiece

\* chess.js game_over(): the side to move has no legal move
EngineGameOver(engine) ==
    ~ \E f \in DOMAIN engine.board, t \in DOMAIN engine.board,
         p \in PromotionPieces :
          EngineLegal(engine, f, t, p)

\* new Chess(): the engine before any puzzle was loaded (no piece of the
\* modelled squares can move)
NewChess == [board |-> EmptyBoard, turn |-> "w", history |-> <<>>]

\* ----------------------------------------------------------------- puzzles
NoTrap == [name |-> "none", trapMove |-> <<>>]

\* moves ["e2e4","e7e5","f1c4"]: an odd line, no trap
LinePuzzle ==
    [id |-> "line", orientation |-> "white",
     fen |-> [board |-> [EmptyBoard EXCEPT ![e2] = Pc("p", "w"),
                                           ![f1] = Pc("b", "w"),
                                           ![e7] = Pc("p", "b")],
              turn |-> "w"],
     moves |-> <<e2 \o e4, e7 \o e5, f1 \o c4>>,
     hasTrap |-> FALSE, trapInfo |-> NoTrap, alternativePaths |-> <<>>]

\* moves ["e7e8q","e5e4"]: an even line that opens with a promotion,
\* decorated with the trap move f1c4
TrapPuzzle ==
    [id |-> "trap", orientation |-> "white",
     fen |-> [board |-> [EmptyBoard EXCEPT ![e7] = Pc("p", "w"),
                                           ![f1] = Pc("b", "w"),
                                           ![e5] = Pc("p", "b")],
              turn |-> "w"],
     moves |-> <<e7 \o e8 \o <<"q">>, e5 \o e4>>,
     hasTrap |-> TRUE,
     trapInfo |-> [name |-> "Bishop Sortie", trapMove |-> f1 \o c4],
     alternativePaths |-> << [move |-> f1 \o c4, evaluation |-> "mistake"] >>]

\* moves ["e7e8q"]: a line of one ply, the promotion, no trap
PromotePuzzle ==
    [id |-> "promote", orientation |-> "white",
     fen |-> [board |-> [EmptyBoard EXCEPT ![e7] = Pc("p", "w"),
                                           ![f1] = Pc("b", "w"),
                                           ![e5] = Pc("p", "b")],
              turn |-> "w"],
     moves |-> <<e7 \o e8 \o <<"q">>>>,
     hasTrap |-> FALSE, trapInfo |-> NoTrap, alternativePaths |-> <<>>]

\* moves ["f1c4","e5e4"], decorated with the promotion e7e8q as trap move
HastyPuzzle ==
    [id |-> "hasty", orientation |-> "white",
     fen |-> [board |-> [EmptyBoard EXCEPT ![e7] = Pc("p", "w"),
                                           ![f1] = Pc("b", "w"),
                                           ![e5] = Pc("p", "b")],
              turn |-> "w"],
     moves |-> <<f1 \o c4, e5 \o e4>>,
     hasTrap |-> TRUE,
     trapInfo |-> [name |-> "Hasty Queen", trapMove |-> e7 \o e8 \o <<"q">>],
     alternativePaths |-> << [move |-> e7 \o e8 \o <<"q">>,
                              evaluation |-> "mistake"] >>]

\* the stored puzzle fork-medium-1 as enhancePuzzleWithTraps returns it with
\* a trap of the opening catalogue attached, on the squares above: moves
\* ["f3e5","d7d6","e5c6","b7c6"]
ForkPuzzle(trapName, move) ==
    [id |-> "fork-medium-1", orientation |-> "white",
     fen |-> [board |-> [EmptyForkBoard EXCEPT ![e4] = Pc("p", "w"),
                                               ![f1] = Pc("b", "w"),
                                               ![f3] = Pc("n", "w"),
                                               ![e5] = Pc("p", "b"),
                                               ![e8] = Pc("k", "b"),
                                               ![d7] = Pc("p", "b"),
                                               ![c6] = Pc("n", "b"),
                                               ![b7] = Pc("p", "b")],
              turn |-> "w"],
     moves |-> <<f3 \o e5, d7 \o d6, e5 \o c6, b7 \o c6>>,
     hasTrap |-> TRUE,
     trapInfo |-> [name |-> trapName, trapMove |-> move],
     alternativePaths |-> << [move |-> move, evaluation |-> "mistake"] >>]

\* the puzzle objects a caller can hand to initializePuzzle
PuzzleIds == {"line", "trap"}
\* fork-medium-1 with each of the three opening traps, named by the trap
DecoratedIds == {"Scholar's Mate", "Légal Trap", "Blackburne Shilling Trap"}
\* the puzzle objects the generator hands to the controller
ControllerPuzzleIds == {"trap", "promote", "hasty"}
AllPuzzleIds == PuzzleIds \cup ControllerPuzzleIds \cup DecoratedIds
Puzzles ==
    [p \in AllPuzzleIds |->
        CASE p = "line" -> LinePuzzle
          [] p = "trap" -> TrapPuzzle
          [] p = "promote" -> PromotePuzzle
          [] p = "hasty" -> HastyPuzzle
          [] p = "Scholar's Mate" ->
                ForkPuzzle(p, f3 \o <<"f", "7">>)
          [] OTHER -> ForkPuzzle(p, f3 \o e5)]

\* ----------------------------------------------- skill tracker: the data
\* the user the tracker was constructed for
UserId == "user-1"

\* new UserSkillProfile(userId).ratings
StartRatings ==
    [overall |-> 1200, tactics |-> 1200, strategy |-> 1200,
     endgame |-> 1200, openings |-> 1200]

\* new UserSkillProfile(userId): themePerformance and struggledThemes are
\* sequences in the order of insertion of their entries
NewUserSkillProfile ==
    [userId |-> UserId,
     ratings |-> StartRatings,
     themePerformance |-> <<>>,
     solvedPuzzles |-> <<>>,
     struggledThemes |-> <<>>,
     currentFocus |-> Null,
     currentLevel |-> "Beginner",
     lastRatingChange |-> 0]

\* initializeLearningPath: this.learningPath
LearningPath ==
    << [id |-> "basic-tactics-1", themes |-> <<"pins", "forks">>,
        difficulty |-> "easy", requiredRating |-> 0, puzzleCount |-> 5],
       [id |-> "opening-principles-1",
        themes |-> <<"center control", "piece development">>,
        difficulty |-> "easy", requiredRating |-> 1000, puzzleCount |-> 5],
       [id |-> "basic-tactics-2",
        themes |-> <<"discovered attacks", "skewers">>,
        difficulty |-> "easy", requiredRating |-> 1050, puzzleCount |-> 5],
       [id |-> "middlegame-1",
        themes |-> <<"attacking the king", "piece coordination">>,
        difficulty |-> "medium", requiredRating |-> 1300, puzzleCount |-> 5],
       [id |-> "tactics-intermediate-1",
        themes |-> <<"double attacks", "deflection">>,
        difficulty |-> "medium", requiredRating |-> 1350, puzzleCount |-> 5],
       [id |-> "endgame-1",
        themes |-> <<"king and pawn", "rook endgames">>,
        difficulty |-> "medium", requiredRating |-> 1400, puzzleCount |-> 5],
       [id |-> "tactics-advanced-1",
        themes |-> <<"zwischenzug", "interference">>,
        difficulty |-> "hard", requiredRating |-> 1600, puzzleCount |-> 5],
       [id |-> "advanced-endgame-1",
        themes |-> <<"fortress positions", "zugzwang positions">>,
        difficulty |-> "hard", requiredRating |-> 1700, puzzleCount |-> 5],
       [id |-> "positional-mastery",
        themes |-> <<"prophylaxis", "piece coordination">>,
        difficulty |-> "expert", requiredRating |-> 1800, puzzleCount |-> 5] >>

\* initializeLearningPath: this.milestones; a milestone object is created
\* without an achieved property, which reads as false
Milestones ==
    << [rating |-> 1200, title |-> "Chess Apprentice", achieved |-> FALSE],
       [rating |-> 1400, title |-> "Chess Tactician", achieved |-> FALSE],
       [rating |-> 1600, title |-> "Chess Strategist", achieved |-> FALSE],
       [rating |-> 1800, title |-> "Chess Expert", achieved |-> FALSE],
       [rating |-> 2000, title |-> "Chess Master", achieved |-> FALSE] >>

\* the calls made on the tracker so far and their results
NoTrackerCall == [op |-> "none"]

\* no rating calculation was asked
NoCalculation == [state |-> "none"]

\* ------------------------------------------------------------------- state
VARIABLES
    currentPuzzle,   \* this.currentPuzzle: Null or the id of a puzzle object
    puzzleHistory,   \* this.puzzleHistory
    moveHistory,     \* this.moveHistory
    isEvaluating,    \* this.isEvaluating
    chessEngine,     \* this.chessEngine
    hintCount,       \* the hintCount property of every puzzle object
    lastCall,        \* the last call made on the PuzzleCore and its result
    attempt          \* bookkeeping of the calls since the last initialize

VARIABLES
    skillProfile,        \* SkillTracker.skillProfile, a UserSkillProfile
    completedLessons,    \* SkillTracker.completedLessons
    currentLessonIndex,  \* SkillTracker.currentLessonIndex
    milestones,          \* SkillTracker.milestones
    trackerCall,         \* the last call made on the tracker and its result
    reported,            \* the milestone ratings returned by updates so far
    updates,             \* the number of updateAfterPuzzle calls so far
    ratingCalc           \* one calculation of the rating change

VARIABLES
    trapDatabase,        \* PuzzleTraps.trapDatabase
    puzzleDatabase,      \* PuzzleGenerator.puzzleDatabase
    options,             \* PuzzleGenerator.options
    generated            \* the last call made on the generator or on its
                         \* PuzzleTraps, and its result

VARIABLES
    controllerOptions,   \* ChessGuerilla.options
    sessionStats,        \* ChessGuerilla.sessionStats
    timers,              \* the callbacks of the controller waiting in the
                         \* timer queue of the page
    controllerCall,      \* the last call made on the controller
    localStorage,        \* the three items of the user in window.localStorage
    app                  \* the globals of the standalone board script and
                         \* its waiting callbacks

\* the controller, the store and the standalone board script
uiVars == <<controllerOptions, sessionStats, timers, controllerCall,
            localStorage, app>>

\* the PuzzleGenerator and its bookkeeping
trapVars == <<trapDatabase, puzzleDatabase, options, generated>>

\* the SkillTracker and its bookkeeping
trackerVars == <<skillProfile, completedLessons, currentLessonIndex,
                 milestones, trackerCall, reported, updates>>

\* the PuzzleCore and its bookkeeping
puzzleCoreVars == <<currentPuzzle, puzzleHistory, moveHistory, isEvaluating,
              chessEngine, hintCount, lastCall, attempt>>

vars == <<currentPuzzle, puzzleHistory, moveHistory, isEvaluating,
          chessEngine, hintCount, lastCall, attempt,
          skillProfile, completedLessons, currentLessonIndex,
          milestones, trackerCall, reported, updates, ratingCalc,
          trapDatabase, puzzleDatabase, options, generated,
          controllerOptions, sessionStats, timers, controllerCall,
          localStorage, app>>

\* PuzzleTraps constructor: the traps of the three phases
TrapDatabase ==
    [openingTraps |->
        << [name |-> "Scholar's Mate",
            fen |-> "r1bqkbnr/ppp2ppp/2np4/4p3/2B1P3/5Q2/PPPP1PPP/RNB1K1NR w KQkq - 0 4",
            trapMove |-> "f3f7", correctDefense |-> "e8f7",
            followUp |-> "c4f7",
            explanation |-> "Scholar's Mate trap. The queen capture on f7 looks threatening but loses the queen after Kxf7."],
           [name |-> "Légal Trap",
            fen |-> "r1bqkb1r/pppp1ppp/2n2n2/4p3/2B1P3/5N2/PPPP1PPP/RNBQK2R w KQkq - 4 4",
            trapMove |-> "f3e5", correctDefense |-> "c6e5",
            followUp |-> "d1f3",
            explanation |-> "Légal's trap. Black's knight capture appears to win material but allows a devastating queen move."],
           [name |-> "Blackburne Shilling Trap",
            fen |-> "r1bqkb1r/pppp1ppp/2n2n2/4p3/4P3/2N2N2/PPPP1PPP/R1BQKB1R w KQkq - 0 4",
            trapMove |-> "f3e5", correctDefense |-> "d8e7",
            followUp |-> "e5c6",
            explanation |-> "Blackburne Shilling Trap. Taking the e5 pawn exposes the knight to capture."] >>,
     middlegameTraps |->
        << [name |-> "Greek Gift Sacrifice",
            fen |-> "rnbqk2r/ppp1bppp/4pn2/3p4/2PP4/2N2N2/PP2PPPP/R1BQKB1R w KQkq - 0 6",
            trapMove |-> "c1h6", correctDefense |-> "g7h6",
            followUp |-> "d1b3",
            explanation |-> "The Greek Gift sacrifice. Black should decline by playing Kf8 rather than taking the bishop."],
           [name |-> "Double Bishop Sacrifice",
            fen |-> "r1bqk2r/pppp1ppp/2n2n2/2b1p3/2B1P3/2NP1N2/PPP2PPP/R1BQK2R w KQkq - 0 6",
            trapMove |-> "c4f7", correctDefense |-> "e8f7",
            followUp |-> "f3e5",
            explanation |-> "Double bishop sacrifice trap. After Kxf7, White plays Ne5+ forking the king and queen."] >>,
     endgameTraps |->
        << [name |-> "Back Rank Mate Trap",
            fen |-> "6k1/5ppp/8/8/8/8/5PPP/R5K1 w - - 0 1",
            trapMove |-> "a1a8", correctDefense |-> "f7f6",
            followUp |-> "",
            explanation |-> "Back rank mate trap. Black must create an escape square for the king with f6 or h6."],
           [name |-> "Queen vs Rook Endgame Trap",
            fen |-> "8/8/8/4k3/8/5R2/7K/3q4 b - - 0 1",
            trapMove |-> "d1f3", correctDefense |-> "h2g2",
            followUp |-> "f3f2",
            explanation |-> "Queen vs Rook endgame trap. Taking the rook leads to a stalemate position."] >>]

\* the puzzles stored by initializePuzzleDatabase
StoredPinEasy1 ==
    [id |-> "pin-easy-1",
     fen |-> "r1bqkbnr/ppp2ppp/2np4/4p3/2B1P3/5N2/PPPP1PPP/RNBQK2R w KQkq - 0 4",
     moves |-> <<"c4f7", "e8f7", "d1f3", "f7e8", "f3f7">>,
     theme |-> "pins", category |-> "tactics", difficulty |-> "easy",
     objective |-> "Find the pin that leads to material gain",
     explanation |-> "The bishop pins the f7 pawn to the king, winning material after the queen check.",
     orientation |-> "white", expectedTime |-> 30]
StoredForkMedium1 ==
    [id |-> "fork-medium-1",
     fen |-> "r1bqkb1r/pppp1ppp/2n2n2/4p3/4P3/2N2N2/PPPP1PPP/R1BQKB1R w KQkq - 4 4",
     moves |-> <<"f3e5", "d7d6", "e5c6", "b7c6">>,
     theme |-> "forks", category |-> "tactics", difficulty |-> "medium",
     objective |-> "Find the knight fork",
     explanation |-> "The knight on e5 forks the queen and rook, gaining material.",
     orientation |-> "white", expectedTime |-> 45]
\* the themes of the database in the order of its keys
DatabaseThemes == <<"pins", "forks">>
PuzzleDatabase ==
    [pins |-> [easy |-> <<StoredPinEasy1>>, medium |-> <<>>, hard |-> <<>>,
               expert |-> <<>>],
     forks |-> [easy |-> <<>>, medium |-> <<StoredForkMedium1>>,
                hard |-> <<>>, expert |-> <<>>]]

\* the options of a PuzzleGenerator constructed without arguments, as far as
\* the traps go; trapFrequency is 0.3
DefaultOptions == [includeTraps |-> TRUE, trapFrequency |-> [n |-> 3, d |-> 10]]
NoGenerated == [op |-> "none"]
NoCall == [op |-> "none"]
NoAttempt == [fed |-> -1, solvedBefore |-> 0]

\* this.options of new ChessGuerilla({userId: "user-1"})
DefaultControllerOptions ==
    [userId |-> UserId, includeTraps |-> TRUE, useLocalStorage |-> TRUE,
     difficulty |-> "adaptive"]

\* this.sessionStats as the constructor sets it; the three times are left
\* out, currentPuzzleHints is 0 where the code has undefined or 0
NewSessionStats ==
    [puzzlesSolved |-> 0, puzzlesFailed |-> 0, hintsUsed |-> 0,
     currentStreak |-> 0, bestStreak |-> 0, currentPuzzleHints |-> 0]

\* localStorage.getItem of a key that was never set: null
NoItem == [item |-> "null"]
\* the store of a user who has not played yet
EmptyStorage == [progress |-> NoItem, stats |-> NoItem, options |-> NoItem]

\* the standalone board script before DOMContentLoaded
NotLoaded == [loaded |-> FALSE]

\* the constructors of PuzzleCore, SkillTracker, PuzzleGenerator and
\* ChessGuerilla
Constructed ==
    /\ currentPuzzle = Null
    /\ puzzleHistory = <<>>
    /\ moveHistory = <<>>
    /\ isEvaluating = FALSE
    /\ chessEngine = NewChess
    /\ hintCount = [p \in AllPuzzleIds |-> 0]
    /\ lastCall = NoCall
    /\ attempt = NoAttempt
    /\ skillProfile = NewUserSkillProfile
    /\ completedLessons = <<>>
    /\ currentLessonIndex = 0
    /\ milestones = Milestones
    /\ trackerCall = NoTrackerCall
    /\ reported = {}
    /\ updates = 0
    /\ trapDatabase = TrapDatabase
    /\ puzzleDatabase = PuzzleDatabase
    /\ options = DefaultOptions
    /\ generated = NoGenerated
    /\ controllerOptions = DefaultControllerOptions
    /\ sessionStats = NewSessionStats
    /\ timers = <<>>
    /\ controllerCall = NoCall
    /\ localStorage = EmptyStorage
    /\ app = NotLoaded

\* the program after construction
Init ==
    /\ Constructed
    /\ ratingCalc = NoCalculation

\* ------------------------------------------------------- initializePuzzle
\* initializePuzzle without the reset of moveHistory
initializePuzzle_keepsHistory(p) ==
    [currentPuzzle |-> p,
     moveHistory |-> moveHistory,
     isEvaluating |-> FALSE,
     chessEngine |-> EngineLoad(Puzzles[p].fen)]

\* the fields initializePuzzle(puzzle) assigns; the puzzle object itself
\* (and with it its hintCount property) is left as it is
initializePuzzle(p) ==
    [currentPuzzle |-> p,
     moveHistory |-> <<>>,
     isEvaluating |-> FALSE,
     chessEngine |-> EngineLoad(Puzzles[p].fen)]

\* the value initializePuzzle returns
BoardState(p, engine) ==
    [position |-> Puzzles[p].fen,
     orientation |-> Puzzles[p].orientation,
     turn |-> engine.turn]

\* a caller hands puzzle object p to initializePuzzle
InitializePuzzle(p) ==
    LET s == initializePuzzle(p)
    IN /\ currentPuzzle' = s.currentPuzzle
       /\ moveHistory' = s.moveHistory
       /\ isEvaluating' = s.isEvaluating
       /\ chessEngine' = s.chessEngine
       /\ lastCall' = [op |-> "initializePuzzle",
                       result |-> BoardState(p, s.chessEngine)]
       /\ attempt' = [fed |-> 0, solvedBefore |-> Len(puzzleHistory)]
       /\ UNCHANGED <<puzzleHistory, hintCount, trackerVars, ratingCalc, trapVars, uiVars>>

\* ------------------------------------------------------------ resetPuzzle
ResetPuzzle ==
    IF currentPuzzle = Null
    THEN /\ lastCall' = [op |-> "resetPuzzle", result |-> Null]
         /\ UNCHANGED <<currentPuzzle, puzzleHistory, moveHistory,
                        isEvaluating, chessEngine, hintCount, attempt,
                        trackerVars, ratingCalc, trapVars, uiVars>>
    ELSE LET s == initializePuzzle(currentPuzzle)
         IN /\ currentPuzzle' = s.currentPuzzle
            /\ moveHistory' = s.moveHistory
            /\ isEvaluating' = s.isEvaluating
            /\ chessEngine' = s.chessEngine
            /\ lastCall' = [op |-> "resetPuzzle",
                            result |-> BoardState(currentPuzzle, s.chessEngine)]
            /\ attempt' = [fed |-> 0, solvedBefore |-> Len(puzzleHistory)]
            /\ UNCHANGED <<puzzleHistory, hintCount, trackerVars, ratingCalc, trapVars, uiVars>>

\* ----------------------------------------------------------- evaluateMove
\* evaluateMove(from, to, promotion = 'q'): the default value is taken
\* whenever the argument is undefined
promotionParam(promotionArg) ==
    IF promotionArg = Undefined THEN <<"q">> ELSE promotionArg

\* from + to + (promotion || '')
moveNotationOf(from, to, promotion) ==
    from \o to \o (IF promotion = Undefined THEN EmptyString ELSE promotion)

\* this.currentPuzzle.moves[this.moveHistory.length - 1], undefined past
\* the end of the line
expectedMoveAt(puzzle, history) ==
    IF Len(history) \in 1..Len(puzzle.moves)
    THEN puzzle.moves[Len(history)] ELSE Undefined

\* the trap the move falls for, or null
trapInfoOf(puzzle, moveNotation) ==
    IF /\ puzzle.hasTrap
       /\ puzzle.trapInfo # NoTrap
       /\ moveNotation = puzzle.trapInfo.trapMove
    THEN puzzle.trapInfo ELSE NoTrap

\* alternativePaths.find(path => path.move === moveNotation)
alternativePathOf(puzzle, moveNotation) ==
    LET hits == {i \in 1..Len(puzzle.alternativePaths) :
                    puzzle.alternativePaths[i].move = moveNotation}
    IN IF hits = {} THEN [move |-> Undefined, evaluation |-> "undefined"]
       ELSE puzzle.alternativePaths[CHOOSE i \in hits : \A j \in hits : i <= j]

NullResult == [kind |-> "null"]
AbsentMove == [from |-> <<>>, to |-> <<>>]
NullMove == [from |-> <<"null">>, to |-> <<"null">>]

\* droppedCall with the flag raised before the guard is looked at
droppedCall_setsFlag(s) ==
    [chessEngine |-> s.chessEngine, moveHistory |-> s.moveHistory,
     puzzleHistory |-> s.puzzleHistory, isEvaluating |-> TRUE,
     result |-> NullResult]

\* the state and the result when the guard drops the call
droppedCall(s) ==
    [chessEngine |-> s.chessEngine, moveHistory |-> s.moveHistory,
     puzzleHistory |-> s.puzzleHistory, isEvaluating |-> s.isEvaluating,
     result |-> NullResult]

\* illegalMove with the early return leaving the flag raised
illegalMove_keepsFlag(s) ==
    [chessEngine |-> s.chessEngine, moveHistory |-> s.moveHistory,
     puzzleHistory |-> s.puzzleHistory, isEvaluating |-> TRUE,
     result |-> [kind |-> "illegal", valid |-> FALSE,
                 message |-> <<"Illegal move">>]]

\* the early return for a move the engine refuses
illegalMove(s) ==
    [chessEngine |-> s.chessEngine, moveHistory |-> s.moveHistory,
     puzzleHistory |-> s.puzzleHistory, isEvaluating |-> FALSE,
     result |-> [kind |-> "illegal", valid |-> FALSE,
                 message |-> <<"Illegal move">>]]

\* the result object as prepared before the branches
preparedResult(puzzle, engine, move, moveNotation, isCorrect) ==
    [kind |-> "valid", valid |-> TRUE,
     isCorrect |-> isCorrect,
     isTrap |-> trapInfoOf(puzzle, moveNotation) # NoTrap,
     trapInfo |-> trapInfoOf(puzzle, moveNotation),
     alternativePath |-> alternativePathOf(puzzle, moveNotation),
     position |-> EngineFen(engine),
     move |-> move,
     gameOver |-> EngineGameOver(engine),
     completed |-> FALSE,
     message |-> <<>>,
     opponentMove |-> AbsentMove]

\* correct move, line finished: the attempt is recorded as solved
solvedMove(puzzle, engine, history, solved, result) ==
    [chessEngine |-> engine, moveHistory |-> history,
     puzzleHistory |-> Append(solved, [id |-> puzzle.id, result |-> "solved",
                                       moves |-> history]),
     isEvaluating |-> FALSE,
     result |-> [result EXCEPT !.completed = TRUE,
                               !.message = <<"Puzzle solved correctly!">>]]

\* continuedMove returning before isEvaluating is cleared
continuedMove_keepsFlag(puzzle, engine, history, solved, result) ==
    [chessEngine |-> engine,
     moveHistory |-> Append(history, puzzle.moves[Len(history) + 1]),
     puzzleHistory |-> solved,
     isEvaluating |-> TRUE,
     result |-> [result EXCEPT
                   !.message = <<"Correct move! Continue...">>,
                   !.opponentMove = NullMove]]

\* correct move, line not finished: the next ply of the line is played
\* as the opponent's reply and recorded whether or not the engine took it
continuedMove(puzzle, engine, history, solved, result) ==
    LET nextMove == puzzle.moves[Len(history) + 1]
        nextFrom == SubSeq(nextMove, 1, 2)
        nextTo == SubSeq(nextMove, 3, 4)
        nextPromotion == IF Len(nextMove) > 4
                         THEN SubSeq(nextMove, 5, Len(nextMove)) ELSE Undefined
        taken == EngineLegal(engine, nextFrom, nextTo, nextPromotion)
        engine2 == IF taken
                   THEN EngineMove(engine, nextFrom, nextTo, nextPromotion)
                   ELSE engine
    IN [chessEngine |-> engine2,
        moveHistory |-> Append(history, nextMove),
        puzzleHistory |-> solved,
        isEvaluating |-> FALSE,
        result |-> [result EXCEPT
                      !.message = <<"Correct move! Continue...">>,
                      !.opponentMove = IF taken
                                       THEN [from |-> nextFrom, to |-> nextTo]
                                       ELSE NullMove,
                      !.position = EngineFen(engine2)]]

\* wrongMove with the undo in the engine but no pop from the history
wrongMove_noPop(puzzle, engine, history, solved, result) ==
    [chessEngine |-> EngineUndo(engine),
     moveHistory |-> history,
     puzzleHistory |-> solved,
     isEvaluating |-> FALSE,
     result |-> [result EXCEPT
                   !.message = <<"Not the best move. Try again.">>]]

\* wrong move that is no trap: undone in the engine, popped from the history
wrongMove(puzzle, engine, history, solved, result) ==
    [chessEngine |-> EngineUndo(engine),
     moveHistory |-> SubSeq(history, 1, Len(history) - 1),
     puzzleHistory |-> solved,
     isEvaluating |-> FALSE,
     result |-> [result EXCEPT
                   !.message = <<"Not the best move. Try again.">>]]

\* trapMove with the rollback of a wrong move
trapMove_rolledBack(puzzle, engine, history, solved, result) ==
    [chessEngine |-> EngineUndo(engine),
     moveHistory |-> SubSeq(history, 1, Len(history) - 1),
     puzzleHistory |-> solved,
     isEvaluating |-> FALSE,
     result |-> [result EXCEPT
                   !.message = <<"You fell for the ", result.trapInfo.name,
                                 " trap!">>]]

\* trap move: reported, left on the board and in the history
trapMove(puzzle, engine, history, solved, result) ==
    [chessEngine |-> engine, moveHistory |-> history,
     puzzleHistory |-> solved,
     isEvaluating |-> FALSE,
     result |-> [result EXCEPT
                   !.message = <<"You fell for the ", result.trapInfo.name,
                                 " trap!">>]]

\* evaluateMove from the guard to the return, on the state s
evaluateMove(s, from, to, promotionArg) ==
    IF s.currentPuzzle = Null \/ s.isEvaluating THEN droppedCall(s)
    ELSE
    LET promotion == promotionParam(promotionArg)
        puzzle == Puzzles[s.currentPuzzle]
    IN IF ~ EngineLegal(s.chessEngine, from, to, promotion)
       THEN illegalMove(s)
       ELSE
       LET engine == EngineMove(s.chessEngine, from, to, promotion)
           moveNotation == moveNotationOf(from, to, promotion)
           history == Append(s.moveHistory, moveNotation)
           isCorrect == moveNotation = expectedMoveAt(puzzle, history)
           result == preparedResult(puzzle, engine,
                                    PrettyMove(s.chessEngine, from, to, promotion),
                                    moveNotation, isCorrect)
       IN IF isCorrect /\ Len(history) >= Len(puzzle.moves)
          THEN solvedMove(puzzle, engine, history, s.puzzleHistory, result)
          ELSE IF isCorrect
          THEN continuedMove(puzzle, engine, history, s.puzzleHistory, result)
          ELSE IF ~ result.isTrap
          THEN wrongMove(puzzle, engine, history, s.puzzleHistory, result)
          ELSE trapMove(puzzle, engine, history, s.puzzleHistory, result)

\* the PuzzleCore fields evaluateMove reads and writes
CoreState ==
    [currentPuzzle |-> currentPuzzle, chessEngine |-> chessEngine,
     moveHistory |-> moveHistory, puzzleHistory |-> puzzleHistory,
     isEvaluating |-> isEvaluating]

\* the user plies of a line: the plies at the even indices 0, 2, ...
NumUserPlies(puzzle) == (Len(puzzle.moves) + 1) \div 2

\* the caller submits ply number k (0-based) of the line as it is written:
\* its squares, and its promotion piece when it has one (a queen may be
\* left out); no promotion piece is passed for a ply that has none
SubmitsPly(puzzle, k, from, to, promotionArg) ==
    LET ply == puzzle.moves[k + 1]
    IN /\ from = SubSeq(ply, 1, 2)
       /\ to = SubSeq(ply, 3, 4)
       /\ IF Len(ply) > 4
          THEN \/ promotionArg = SubSeq(ply, 5, Len(ply))
               \/ promotionArg = Undefined /\ SubSeq(ply, 5, Len(ply)) = <<"q">>
          ELSE promotionArg \in {Undefined, EmptyString}

\* how many user plies were submitted in order since initialize, -1 once
\* any other move was submitted
Fed(from, to, promotionArg) ==
    IF /\ currentPuzzle # Null
       /\ attempt.fed \in 0..(NumUserPlies(Puzzles[currentPuzzle]) - 1)
       /\ SubmitsPly(Puzzles[currentPuzzle], 2 * attempt.fed,
                     from, to, promotionArg)
    THEN attempt.fed + 1 ELSE -1

\* a caller calls evaluateMove(from, to, promotionArg)
EvaluateMove(from, to, promotionArg) ==
    LET r == evaluateMove(CoreState, from, to, promotionArg)
    IN /\ Len(r.puzzleHistory) <= MaxSolved
       /\ chessEngine' = r.chessEngine
       /\ moveHistory' = r.moveHistory
       /\ puzzleHistory' = r.puzzleHistory
       /\ isEvaluating' = r.isEvaluating
       /\ lastCall' = [op |-> "evaluateMove",
                       promotion |-> promotionArg,
                       moveNotation |-> IF r.result.kind = "valid"
                                        THEN moveNotationOf(from, to,
                                               promotionParam(promotionArg))
                                        ELSE <<>>,
                       result |-> r.result]
       /\ attempt' = [attempt EXCEPT !.fed = Fed(from, to, promotionArg)]
       /\ UNCHANGED <<currentPuzzle, hintCount, trackerVars, ratingCalc, trapVars, uiVars>>

\* ---------------------------------------------------------------- getHint
getPieceName(pieceType) ==
    CASE pieceType = "p" -> "pawn"
      [] pieceType = "n" -> "knight"
      [] pieceType = "b" -> "bishop"
      [] pieceType = "r" -> "rook"
      [] pieceType = "q" -> "queen"
      [] pieceType = "k" -> "king"
      [] OTHER -> "piece"

getSquareDescription(square) ==
    LET file == square[1]
        rank == square[2]
        fileArea == IF file \in {"a", "b", "c"} THEN "queenside"
                    ELSE IF file \in {"f", "g", "h"} THEN "kingside"
                    ELSE "center"
        rankArea == IF rank \in {"1", "2"} THEN " back rank"
                    ELSE IF rank \in {"7", "8"} THEN " front rank"
                    ELSE IF rank \in {"4", "5"} THEN " middle"
                    ELSE ""
    IN <<fileArea, rankArea>>

\* the three hints of increasing specificity, indexed 0..2
hints(piece, fromSquare, toSquare) ==
    [level \in 0..2 |->
       CASE level = 0 ->
              [type |-> "vague",
               message |-> <<"Look for a move with your ",
                             getPieceName(piece.type), ".">>,
               highlightSquares |-> <<>>]
         [] level = 1 ->
              [type |-> "moderate",
               message |-> <<"Consider moving a piece from the ">>
                             \o getSquareDescription(fromSquare)
                             \o <<" area.">>,
               highlightSquares |-> <<fromSquare>>]
         [] level = 2 ->
              [type |-> "specific",
               message |-> <<"Try moving your ", getPieceName(piece.type),
                             " from ">> \o fromSquare \o <<" to ">>
                             \o toSquare \o <<".">>,
               highlightSquares |-> <<fromSquare, toSquare>>]]

Min(a, b) == IF a <= b THEN a ELSE b

\* the level taken from the count after the increment
hintLevel_afterIncrement(count) == Min(count + 1, 2)

\* Math.min(this.currentPuzzle.hintCount || 0, 2)
hintLevel(count) == Min(count, 2)

\* getHint on the state s with the current puzzle's hintCount: the hint
\* returned and the hintCount afterwards
getHint(s, count) ==
    LET puzzle == Puzzles[s.currentPuzzle]
        expectedMoveIndex == Len(s.moveHistory)
    IN IF expectedMoveIndex >= Len(puzzle.moves)
       THEN [hint |-> [type |-> "info",
                       message |-> <<"You've completed all the moves for this puzzle!">>],
             hintCount |-> count]
       ELSE
       LET expectedMove == puzzle.moves[expectedMoveIndex + 1]
           fromSquare == SubSeq(expectedMove, 1, 2)
           toSquare == SubSeq(expectedMove, 3, 4)
           piece == EngineGet(s.chessEngine, fromSquare)
       IN IF piece = NoPiece
          THEN [hint |-> [type |-> "error",
                          message |-> <<"Hint error: Could not find piece at expected position">>],
                hintCount |-> count]
          ELSE [hint |-> hints(piece, fromSquare, toSquare)[hintLevel(count)],
                hintCount |-> count + 1]

\* a caller calls getHint()
GetHint ==
    IF currentPuzzle = Null
    THEN /\ lastCall' = [op |-> "getHint", result |-> NullResult]
         /\ UNCHANGED <<currentPuzzle, puzzleHistory, moveHistory,
                        isEvaluating, chessEngine, hintCount, attempt,
                        trackerVars, ratingCalc, trapVars, uiVars>>
    ELSE LET r == getHint(CoreState, hintCount[currentPuzzle])
         IN /\ r.hintCount <= MaxHints
            /\ hintCount' = [hintCount EXCEPT ![currentPuzzle] = r.hintCount]
            /\ lastCall' = [op |-> "getHint", result |-> r.hint]
            /\ UNCHANGED <<currentPuzzle, puzzleHistory, moveHistory,
                           isEvaluating, chessEngine, attempt,
                           trackerVars, ratingCalc, trapVars, uiVars>>

\* ---------------------------------------------------------------- fractions
\* exact fractions n / d, d > 0
Rat(n, d) == [n |-> n, d |-> d]
FromInt(i) == Rat(i, 1)

RECURSIVE GCD(_, _)
GCD(a, b) == IF b = 0 THEN a ELSE GCD(b, a % b)

Abs(i) == IF i < 0 THEN -i ELSE i

\* the canonical fraction of a value
Normalize(q) ==
    LET g == GCD(Abs(q.n), q.d)
    IN Rat(q.n \div g, q.d \div g)

RatAdd(a, b) == Rat(a.n * b.d + b.n * a.d, a.d * b.d)
RatMul(a, b) == Rat(a.n * b.n, a.d * b.d)
\* a / b for b > 0
RatDiv(a, b) == Rat(a.n * b.d, a.d * b.n)
RatLess(a, b) == a.n * b.d < b.n * a.d

\* --------------------------------------------------- JavaScript numbers
\* A Number is an IEEE-754 double: sign * m * 2^e with a mantissa m of
\* MantissaBits bits, every operation rounding its exact result to the
\* nearest such value, a tie going to the even mantissa.  Mantissas and
\* the exact intermediate results are natural numbers of any size, written
\* as sequences of limbs below Limb, the lowest limb first.
LimbBits == 15
Limb == 2 ^ LimbBits
MantissaBits == 53

RECURSIVE BigTrim(_)
BigTrim(x) ==
    IF x = <<>> THEN x
    ELSE IF x[Len(x)] = 0 THEN BigTrim(SubSeq(x, 1, Len(x) - 1))
    ELSE x

RECURSIVE BigFromInt(_)
BigFromInt(n) ==
    IF n = 0 THEN <<>> ELSE <<n % Limb>> \o BigFromInt(n \div Limb)

RECURSIVE BigToInt(_)
BigToInt(x) ==
    IF x = <<>> THEN 0 ELSE Head(x) + Limb * BigToInt(Tail(x))

RestOf(x) == IF x = <<>> THEN <<>> ELSE Tail(x)
LowOf(x) == IF x = <<>> THEN 0 ELSE Head(x)

RECURSIVE BigAddCarry(_, _, _)
BigAddCarry(x, y, carry) ==
    IF x = <<>> /\ y = <<>>
    THEN (IF carry = 0 THEN <<>> ELSE <<carry>>)
    ELSE LET sum == LowOf(x) + LowOf(y) + carry
         IN <<sum % Limb>> \o BigAddCarry(RestOf(x), RestOf(y), sum \div Limb)

BigAdd(x, y) == BigAddCarry(x, y, 0)

\* x - y for x >= y
RECURSIVE BigSubBorrow(_, _, _)
BigSubBorrow(x, y, borrow) ==
    IF x = <<>> THEN <<>>
    ELSE LET d == Head(x) - LowOf(y) - borrow
         IN <<(d + Limb) % Limb>>
            \o BigSubBorrow(Tail(x), RestOf(y), IF d < 0 THEN 1 ELSE 0)

BigSub(x, y) == BigTrim(BigSubBorrow(x, y, 0))

RECURSIVE BigCmpAt(_, _, _)
BigCmpAt(x, y, i) ==
    IF i = 0 THEN 0
    ELSE IF x[i] < y[i] THEN -1
    ELSE IF x[i] > y[i] THEN 1
    ELSE BigCmpAt(x, y, i - 1)

\* -1, 0 or 1 as x is below, equal to or above y
BigCmp(x, y) ==
    IF Len(x) < Len(y) THEN -1
    ELSE IF Len(x) > Len(y) THEN 1
    ELSE BigCmpAt(x, y, Len(x))

\* x * k for k below Limb
RECURSIVE BigMulSmallCarry(_, _, _)
BigMulSmallCarry(x, k, carry) ==
    IF x = <<>> THEN (IF carry = 0 THEN <<>> ELSE <<carry>>)
    ELSE LET p == Head(x) * k + carry
         IN <<p % Limb>> \o BigMulSmallCarry(Tail(x), k, p \div Limb)

BigMulSmall(x, k) == BigTrim(BigMulSmallCarry(x, k, 0))

\* x * Limb^n
BigShiftLimbs(x, n) ==
    IF x = <<>> THEN <<>> ELSE [i \in 1..n |-> 0] \o x

RECURSIVE BigMul(_, _)
BigMul(x, y) ==
    IF y = <<>> THEN <<>>
    ELSE BigAdd(BigMulSmall(x, Head(y)),
                BigShiftLimbs(BigMul(x, Tail(y)), 1))

\* quotient and remainder of x by d, 0 < d <= Limb
RECURSIVE BigDivSmall(_, _)
BigDivSmall(x, d) ==
    IF x = <<>> THEN [q |-> <<>>, r |-> 0]
    ELSE LET high == BigDivSmall(Tail(x), d)
             cur == high.r * Limb + Head(x)
         IN [q |-> <<cur \div d>> \o high.q, r |-> cur % d]

\* x * 2^k
BigShl(x, k) ==
    BigShiftLimbs(BigMulSmall(x, 2 ^ (k % LimbBits)), k \div LimbBits)

\* floor(x / 2^k)
BigShr(x, k) ==
    IF k \div LimbBits >= Len(x) THEN <<>>
    ELSE BigTrim(BigDivSmall(SubSeq(x, k \div LimbBits + 1, Len(x)),
                             2 ^ (k % LimbBits)).q)

\* the number of bits of x
RECURSIVE LimbBitLen(_)
LimbBitLen(n) == IF n = 0 THEN 0 ELSE 1 + LimbBitLen(n \div 2)

BigBitLen(x) ==
    IF x = <<>> THEN 0
    ELSE (Len(x) - 1) * LimbBits + LimbBitLen(x[Len(x)])

BigOdd(x) == x # <<>> /\ x[1] % 2 = 1

\* x / 2^k rounded to the nearest integer, a tie going to the even one
BigRoundShr(x, k) ==
    LET q == BigShr(x, k)
        r == BigSub(x, BigShl(q, k))
        c == BigCmp(r, BigShl(<<1>>, k - 1))
    IN IF c > 0 \/ (c = 0 /\ BigOdd(q)) THEN BigAdd(q, <<1>>) ELSE q

DZero == [sign |-> 1, m |-> <<>>, e |-> 0]

\* the double nearest to sign * n * 2^e
DRound(sign, n, e) ==
    IF n = <<>> THEN DZero
    ELSE LET len == BigBitLen(n)
         IN IF len <= MantissaBits
            THEN [sign |-> sign, m |-> BigShl(n, MantissaBits - len),
                  e |-> e - (MantissaBits - len)]
            ELSE LET q == BigRoundShr(n, len - MantissaBits)
                 IN IF BigBitLen(q) > MantissaBits
                    THEN [sign |-> sign, m |-> BigShr(q, 1),
                          e |-> e + len - MantissaBits + 1]
                    ELSE [sign |-> sign, m |-> q,
                          e |-> e + len - MantissaBits]

DFromInt(i) == DRound(IF i < 0 THEN -1 ELSE 1, BigFromInt(Abs(i)), 0)

DNeg(a) == IF a.m = <<>> THEN a ELSE [a EXCEPT !.sign = -a.sign]

\* a * b
DMul(a, b) ==
    IF a.m = <<>> \/ b.m = <<>> THEN DZero
    ELSE DRound(a.sign * b.sign, BigMul(a.m, b.m), a.e + b.e)

\* a + b
DAdd(a, b) ==
    IF a.m = <<>> THEN b
    ELSE IF b.m = <<>> THEN a
    ELSE LET e == IF a.e < b.e THEN a.e ELSE b.e
             am == BigShl(a.m, a.e - e)
             bm == BigShl(b.m, b.e - e)
             c == BigCmp(am, bm)
         IN IF a.sign = b.sign THEN DRound(a.sign, BigAdd(am, bm), e)
            ELSE IF c = 0 THEN DZero
            ELSE IF c > 0 THEN DRound(a.sign, BigSub(am, bm), e)
            ELSE DRound(b.sign, BigSub(bm, am), e)

\* a - b
DSub(a, b) == DAdd(a, DNeg(b))

\* p / q for integers p and q, 0 < q < Limb
DDivInt(p, q) ==
    IF p = 0 THEN DZero
    ELSE LET d == BigDivSmall(BigShl(BigFromInt(Abs(p)), 5 * LimbBits), q)
             twice == BigShl(BigTrim(d.q), 1)
         IN DRound(IF p < 0 THEN -1 ELSE 1,
                   IF d.r = 0 THEN twice ELSE BigAdd(twice, <<1>>),
                   -(5 * LimbBits) - 1)

\* |a| < |b| for a and b other than 0
DBelow(a, b) ==
    a.e < b.e \/ (a.e = b.e /\ BigCmp(a.m, b.m) < 0)

\* -1, 0 or 1 as a is below, equal to or above 0
DSign(a) == IF a.m = <<>> THEN 0 ELSE a.sign

\* a < b
DLess(a, b) ==
    IF DSign(a) # DSign(b) THEN DSign(a) < DSign(b)
    ELSE IF DSign(a) = 0 THEN FALSE
    ELSE IF DSign(a) = 1 THEN DBelow(a, b)
    ELSE DBelow(b, a)

\* Math.max(a, b), Math.min(a, b)
DMax(a, b) == IF DLess(a, b) THEN b ELSE a
DMin(a, b) == IF DLess(b, a) THEN b ELSE a

\* Math.round(x) for |x| < 2^31: floor(x + 0.5), computed exactly
MathRound(x) ==
    IF x.m = <<>> THEN 0
    ELSE LET k == -(x.e + 1)
             half == BigShl(<<1>>, k)
         IN IF x.sign = 1
            THEN BigToInt(BigShr(BigAdd(x.m, half), k + 1))
            ELSE IF BigCmp(x.m, half) <= 0 THEN 0
            ELSE -BigToInt(BigShr(BigAdd(BigSub(x.m, half),
                                         BigSub(BigShl(<<1>>, k + 1), <<1>>)),
                                  k + 1))

\* the literals 0.2, 0.5, 1.5 and 1
Double0_2 == DDivInt(1, 5)
Double0_5 == DDivInt(1, 2)
Double1_5 == DDivInt(3, 2)
Double1 == DFromInt(1)

\* -------------------------------------------------- properties of objects
Has(obj, key) == key \in DOMAIN obj
\* obj[key] || default for a number: undefined and 0 give the default
OrNumber(obj, key, default) ==
    IF Has(obj, key) /\ obj[key] # 0 THEN obj[key] ELSE default
\* obj[key] || default for a string: undefined, null and '' give the default
OrString(obj, key, default) ==
    IF Has(obj, key) /\ obj[key] \notin {"", Null} THEN obj[key] ELSE default
\* obj[key] || default for an object or array, which is truthy when present
OrObject(obj, key, default) ==
    IF Has(obj, key) THEN obj[key] ELSE default

Range(seq) == {seq[i] : i \in 1..Len(seq)}

\* the element of a set of one element; {F(v) : v \in {x}} holds F(x)
\* alone, with x evaluated once however often F uses it
Only(set) == CHOOSE r \in set : TRUE

\* ------------------------------------- UserSkillProfile.updateAfterPuzzle
\* correct ? 10 : -5
baseChange(correct) == IF correct THEN 10 ELSE -5

\* 1 + ((puzzle.rating || 1500) - this.ratings.overall) / 400
difficultyFactor(puzzle, overall) ==
    LET difficultyDelta == OrNumber(puzzle, "rating", 1500) - overall
    IN DAdd(Double1, DDivInt(difficultyDelta, 400))

\* correct ? Math.max(0.5, Math.min(1.5, expectedTime / timeSpent)) : 1;
\* a timeSpent of 0 makes the quotient Infinity
timeFactor(puzzle, correct, timeSpent) ==
    LET expectedTime == OrNumber(puzzle, "expectedTime", 60)
    IN IF ~correct THEN Double1
       ELSE IF timeSpent = 0 THEN DMax(Double0_5, Double1_5)
       ELSE DMax(Double0_5,
                 DMin(Double1_5, DDivInt(expectedTime, timeSpent)))

\* hintsUsed > 0 ? Math.max(0.2, 1 - (hintsUsed * 0.2)) : 1
hintFactor(hintsUsed) ==
    IF hintsUsed > 0
    THEN DMax(Double0_2,
              DSub(Double1, DMul(DFromInt(hintsUsed), Double0_2)))
    ELSE Double1

\* Math.round(baseChange * difficultyFactor * timeFactor * hintFactor)
ratingChange(puzzle, correct, overall, timeSpent, hintsUsed) ==
    MathRound(DMul(DMul(DMul(DFromInt(baseChange(correct)),
                             difficultyFactor(puzzle, overall)),
                        timeFactor(puzzle, correct, timeSpent)),
                   hintFactor(hintsUsed)))

\* the position of theme among the keys of themePerformance, 0 when absent
ThemeIndex(themePerformance, theme) ==
    IF \E i \in 1..Len(themePerformance) : themePerformance[i].theme = theme
    THEN CHOOSE i \in 1..Len(themePerformance) :
            themePerformance[i].theme = theme
    ELSE 0

\* the theme statistics after one more attempt on theme
recordAttempt(themePerformance, theme, correct, timeSpent) ==
    LET created == IF ThemeIndex(themePerformance, theme) = 0
                   THEN Append(themePerformance,
                               [theme |-> theme, attempts |-> 0,
                                correct |-> 0, avgTime |-> FromInt(0),
                                lastAttempt |-> Null])
                   ELSE themePerformance
        i == ThemeIndex(created, theme)
        themeStats == created[i]
        attempts == themeStats.attempts + 1
    IN [created EXCEPT ![i] =
          [theme |-> theme,
           attempts |-> attempts,
           correct |-> themeStats.correct + (IF correct THEN 1 ELSE 0),
           avgTime |-> Normalize(RatDiv(
                          RatAdd(RatMul(themeStats.avgTime,
                                        FromInt(attempts - 1)),
                                 FromInt(timeSpent)),
                          FromInt(attempts))),
           lastAttempt |-> "Date"]]

\* stats.correct / stats.attempts
successRate(stats) == Normalize(Rat(stats.correct, stats.attempts))

\* sort((a, b) => a.successRate - b.successRate): lowest first, entries of
\* equal rate keep their order
RECURSIVE sortBySuccessRate(_)
sortBySuccessRate(list) ==
    IF list = <<>> THEN <<>>
    ELSE LET x == Head(list)
             insert(rest) ==
                LET k == Cardinality({i \in 1..Len(rest) :
                            RatLess(rest[i].successRate, x.successRate)})
                IN SubSeq(rest, 1, k) \o <<x>>
                      \o SubSeq(rest, k + 1, Len(rest))
         IN Only({insert(rest) : rest \in {sortBySuccessRate(Tail(list))}})

\* sort((a, b) => a.attempts - b.attempts)
RECURSIVE sortByAttempts(_)
sortByAttempts(list) ==
    IF list = <<>> THEN <<>>
    ELSE LET x == Head(list)
             insert(rest) ==
                LET k == Cardinality({i \in 1..Len(rest) :
                                        rest[i].attempts < x.attempts})
                IN SubSeq(rest, 1, k) \o <<x>>
                      \o SubSeq(rest, k + 1, Len(rest))
         IN Only({insert(rest) : rest \in {sortByAttempts(Tail(list))}})

\* stats.attempts >= 3 && (stats.correct / stats.attempts) < 0.5
isStruggled(stats) ==
    stats.attempts >= 3 /\ RatLess(successRate(stats), Rat(1, 2))

\* the entry pushed to struggledThemes for a theme
struggledEntry(stats) ==
    [theme |-> stats.theme, successRate |-> successRate(stats),
     attempts |-> stats.attempts]

RECURSIVE MapStruggled(_)
MapStruggled(list) ==
    IF list = <<>> THEN <<>>
    ELSE <<struggledEntry(Head(list))>> \o MapStruggled(Tail(list))

\* updateStruggledThemes without the sort
updateStruggledThemes_unsorted(themePerformance) ==
    MapStruggled(SelectSeq(themePerformance, isStruggled))

\* updateStruggledThemes: the new struggledThemes
updateStruggledThemes(themePerformance) ==
    sortBySuccessRate(MapStruggled(SelectSeq(themePerformance, isStruggled)))

\* updateSkillLevel with the first rung at 1000
updateSkillLevel_lowRung(rating) ==
    IF rating < 1000 THEN "Beginner"
    ELSE IF rating < 1400 THEN "Intermediate"
    ELSE IF rating < 1600 THEN "Advanced"
    ELSE IF rating < 1800 THEN "Expert"
    ELSE IF rating < 2000 THEN "Master"
    ELSE "Grandmaster"

\* updateSkillLevel: the new currentLevel
updateSkillLevel(rating) ==
    IF rating < 1200 THEN "Beginner"
    ELSE IF rating < 1400 THEN "Intermediate"
    ELSE IF rating < 1600 THEN "Advanced"
    ELSE IF rating < 1800 THEN "Expert"
    ELSE IF rating < 2000 THEN "Master"
    ELSE "Grandmaster"

\* the entries of themePerformance left in their order of insertion
themesSortedByAttempts_unsorted(themePerformance) ==
    themePerformance

\* Object.entries(themePerformance).map(...).sort(by attempts)
themesSortedByAttempts(themePerformance) ==
    sortByAttempts(themePerformance)

\* updateFocus: the new currentFocus
updateFocus(struggledThemes, themePerformance) ==
    IF Len(struggledThemes) > 0
    THEN struggledThemes[1].theme
    ELSE LET themeAttempts == themesSortedByAttempts(themePerformance)
         IN IF Len(themeAttempts) > 0
            THEN themeAttempts[1].theme
            ELSE "tactical patterns"

\* the ratings after the change: overall first, then the puzzle's category
\* when this.ratings[category] is truthy
updateRatings(ratings, category, change) ==
    LET withOverall == [ratings EXCEPT !.overall = @ + change]
    IN IF Has(withOverall, category) /\ withOverall[category] # 0
       THEN [withOverall EXCEPT ![category] = @ + change]
       ELSE withOverall

\* the push made without the includes test
recordSolved_always(solvedPuzzles, id) == Append(solvedPuzzles, id)
\* the puzzle recorded in the solved list unless it is there already
recordSolved(solvedPuzzles, id) ==
    IF id \in Range(solvedPuzzles)
    THEN solvedPuzzles
    ELSE Append(solvedPuzzles, id)

\* updateAfterPuzzle(puzzle, correct, timeSpent, hintsUsed) on a profile;
\* reassess is the outcome of Math.random() < 0.2
updateAfterPuzzle(profile, puzzle, correct, timeSpent, hintsUsed, reassess) ==
    LET solvedPuzzles == recordSolved(profile.solvedPuzzles, puzzle.id)
        theme == OrString(puzzle, "theme", "general")
        category == OrString(puzzle, "category", "tactics")
        updated(themePerformance, change) ==
           LET ratings == updateRatings(profile.ratings, category, change)
               finished(struggledThemes) ==
                  [userId |-> profile.userId,
                   ratings |-> ratings,
                   themePerformance |-> themePerformance,
                   solvedPuzzles |-> solvedPuzzles,
                   struggledThemes |-> struggledThemes,
                   currentFocus |->
                      IF profile.currentFocus \in {Null, ""} \/ reassess
                      THEN updateFocus(struggledThemes, themePerformance)
                      ELSE profile.currentFocus,
                   currentLevel |-> updateSkillLevel(ratings.overall),
                   lastRatingChange |-> change]
           IN Only({finished(struggledThemes) : struggledThemes \in
                      {updateStruggledThemes(themePerformance)}})
    IN Only({updated(themePerformance, change) :
                themePerformance \in
                   {recordAttempt(profile.themePerformance, theme, correct,
                                  timeSpent)},
                change \in
                   {ratingChange(puzzle, correct, profile.ratings.overall,
                                 timeSpent, hintsUsed)}})

\* ---------------------------------- UserSkillProfile.getRecommendedThemes
\* for (const t of themes) { if (!recommendations.includes(t)) { push;
\* if (recommendations.length >= count) break; } }
RECURSIVE addThemes(_, _, _)
addThemes(recommendations, themes, count) ==
    IF themes = <<>> THEN recommendations
    ELSE IF Head(themes) \in Range(recommendations)
    THEN addThemes(recommendations, Tail(themes), count)
    ELSE LET pushed == Append(recommendations, Head(themes))
         IN IF Len(pushed) >= count THEN pushed
            ELSE addThemes(pushed, Tail(themes), count)

generalThemes ==
    <<"pins", "forks", "discovered attacks", "removing the defender">>

\* while (recommendations.length < count && i < generalThemes.length)
RECURSIVE fillThemes(_, _, _)
fillThemes(recommendations, themes, count) ==
    IF themes = <<>> \/ Len(recommendations) >= count THEN recommendations
    ELSE fillThemes(IF Head(themes) \in Range(recommendations)
                    THEN recommendations
                    ELSE Append(recommendations, Head(themes)),
                    Tail(themes), count)

\* the theme names of a list of entries
RECURSIVE ThemesOf(_)
ThemesOf(list) ==
    IF list = <<>> THEN <<>>
    ELSE <<Head(list).theme>> \o ThemesOf(Tail(list))

\* recommendations.slice(0, count), count >= 0
slice(list, count) == SubSeq(list, 1, Min(count, Len(list)))

\* getRecommendedThemes without the final slice(0, count)
getRecommendedThemes_unsliced(profile, count) ==
    LET focus == IF profile.currentFocus \in {Null, ""}
                 THEN <<>> ELSE <<profile.currentFocus>>
        struggled == addThemes(focus, ThemesOf(profile.struggledThemes),
                               count)
        practised == IF Len(struggled) < count
                     THEN addThemes(struggled,
                                    ThemesOf(themesSortedByAttempts(
                                                profile.themePerformance)),
                                    count)
                     ELSE struggled
    IN fillThemes(practised, generalThemes, count)

\* getRecommendedThemes(count) on a profile
getRecommendedThemes(profile, count) ==
    LET focus == IF profile.currentFocus \in {Null, ""}
                 THEN <<>> ELSE <<profile.currentFocus>>
        struggled == addThemes(focus, ThemesOf(profile.struggledThemes),
                               count)
        practised == IF Len(struggled) < count
                     THEN addThemes(struggled,
                                    ThemesOf(themesSortedByAttempts(
                                                profile.themePerformance)),
                                    count)
                     ELSE struggled
    IN slice(fillThemes(practised, generalThemes, count), count)

\* sort((a, b) => b.successRate - a.successRate): highest first, entries of
\* equal rate keep their order
RECURSIVE sortBySuccessRateDescending(_)
sortBySuccessRateDescending(list) ==
    IF list = <<>> THEN <<>>
    ELSE LET x == Head(list)
             insert(rest) ==
                LET k == Cardinality({i \in 1..Len(rest) :
                            RatLess(x.successRate, rest[i].successRate)})
                IN SubSeq(rest, 1, k) \o <<x>>
                      \o SubSeq(rest, k + 1, Len(rest))
         IN Only({insert(rest) :
                    rest \in {sortBySuccessRateDescending(Tail(list))}})

\* stats.attempts >= 3: the themes with enough attempts
hasEnoughAttempts(stats) == stats.attempts >= 3

\* the { theme, successRate } entries of the themes of a list
themesWithSuccess(list) ==
    [i \in 1..Len(list) |->
        [theme |-> list[i].theme, successRate |-> successRate(list[i])]]

\* getStrengthThemes(count) on a profile
getStrengthThemes(profile, count) ==
    ThemesOf(slice(sortBySuccessRateDescending(
                      themesWithSuccess(SelectSeq(profile.themePerformance,
                                                  hasEnoughAttempts))),
                   count))

\* UserSkillProfile.getWeaknessThemes(count)
getWeaknessThemes(profile, count) ==
    ThemesOf(slice(profile.struggledThemes, count))

\* ------------------------------------------------------------ SkillTracker
\* the milestones of list marked achieved
MarkAchieved(list) ==
    [i \in 1..Len(list) |-> [list[i] EXCEPT !.achieved = TRUE]]

\* checkForNewMilestones without the !milestone.achieved test
checkForNewMilestones_reportsAll(list, currentRating) ==
    LET reached(m) == currentRating >= m.rating
    IN [milestones |-> [i \in 1..Len(list) |->
                          IF reached(list[i])
                          THEN [list[i] EXCEPT !.achieved = TRUE]
                          ELSE list[i]],
        achievedMilestones |-> MarkAchieved(SelectSeq(list, reached))]

\* checkForNewMilestones on the milestones list: the list afterwards and the
\* milestones returned
checkForNewMilestones(list, currentRating) ==
    LET isNew(m) == currentRating >= m.rating /\ ~m.achieved
    IN [milestones |-> [i \in 1..Len(list) |->
                          IF isNew(list[i])
                          THEN [list[i] EXCEPT !.achieved = TRUE]
                          ELSE list[i]],
        achievedMilestones |-> MarkAchieved(SelectSeq(list, isNew))]

\* the lesson ids of completedLessons include id
lessonDone(completed, id) == id \in Range(completed)

\* getNextLesson with the second loop running upwards: the lowest lesson
\* allowed is the fallback
getNextLesson_lowestFallback(completed, overall) ==
    LET open == {i \in 1..Len(LearningPath) :
                   /\ ~lessonDone(completed, LearningPath[i].id)
                   /\ overall >= LearningPath[i].requiredRating}
    IN IF open # {}
       THEN (CHOOSE i \in open : \A j \in open : i <= j) - 1
       ELSE 0
\* getNextLesson: the value it leaves in currentLessonIndex; the lesson it
\* returns is this.learningPath[currentLessonIndex]
getNextLesson(completed, overall) ==
    LET open == {i \in 1..Len(LearningPath) :
                   /\ ~lessonDone(completed, LearningPath[i].id)
                   /\ overall >= LearningPath[i].requiredRating}
        allowed == {i \in 1..Len(LearningPath) :
                      overall >= LearningPath[i].requiredRating}
    IN IF open # {}
       THEN (CHOOSE i \in open : \A j \in open : i <= j) - 1
       ELSE IF allowed # {}
       THEN (CHOOSE i \in allowed : \A j \in allowed : i >= j) - 1
       ELSE 0

\* allThemesSolved without the test of the success rate
allThemesSolved_attemptsOnly(lesson, themePerformance) ==
    \A k \in 1..Len(lesson.themes) :
       LET i == ThemeIndex(themePerformance, lesson.themes[k])
       IN /\ i # 0
          /\ ~(themePerformance[i].attempts < 5)
\* every theme of the lesson has at least 5 attempts and a success rate of
\* at least 0.6
allThemesSolved(lesson, themePerformance) ==
    \A k \in 1..Len(lesson.themes) :
       LET i == ThemeIndex(themePerformance, lesson.themes[k])
       IN /\ i # 0
          /\ ~(themePerformance[i].attempts < 5)
          /\ ~RatLess(Rat(themePerformance[i].correct,
                          themePerformance[i].attempts), Rat(3, 5))

\* the fields of the tracker as one value
TrackerState ==
    [skillProfile |-> skillProfile,
     completedLessons |-> completedLessons,
     currentLessonIndex |-> currentLessonIndex,
     milestones |-> milestones]

\* SkillTracker.updateAfterPuzzle(puzzle, correct, timeSpent, hintsUsed) on
\* the tracker t: the tracker afterwards and the object returned
trackerUpdateAfterPuzzle(t, puzzle, correct, timeSpent, hintsUsed, reassess) ==
    LET tracked(profile) ==
    LET checked == checkForNewMilestones(t.milestones,
                                         profile.ratings.overall)
        hasLesson == t.currentLessonIndex + 1 \in 1..Len(LearningPath)
        lessonCompleted ==
            /\ hasLesson
            /\ ~lessonDone(t.completedLessons,
                           LearningPath[t.currentLessonIndex + 1].id)
            /\ allThemesSolved(LearningPath[t.currentLessonIndex + 1],
                               profile.themePerformance)
        completed == IF lessonCompleted
                     THEN Append(t.completedLessons,
                                 LearningPath[t.currentLessonIndex + 1].id)
                     ELSE t.completedLessons
        index == IF lessonCompleted
                 THEN getNextLesson(completed, profile.ratings.overall)
                 ELSE t.currentLessonIndex
    IN [skillProfile |-> profile,
        completedLessons |-> completed,
        currentLessonIndex |-> index,
        milestones |-> checked.milestones,
        result |-> [newRating |-> profile.ratings.overall,
                    ratingChange |-> profile.lastRatingChange,
                    achievedMilestones |-> checked.achievedMilestones,
                    lessonCompleted |-> lessonCompleted,
                    nextLesson |-> IF lessonCompleted
                                   THEN LearningPath[index + 1].id
                                   ELSE Null,
                    recommendedThemes |-> getRecommendedThemes(profile, 3)]]
    IN Only({tracked(profile) : profile \in
                {updateAfterPuzzle(t.skillProfile, puzzle, correct,
                                   timeSpent, hintsUsed, reassess)}})

\* entries of a parsed milestones array that are not objects: null, a number
NullEntry == [json |-> "null"]
NumberEntry == [json |-> "number"]
\* the place of the first null in the entries, one past the end without one
firstNull(entries) ==
    IF \E k \in 1..Len(entries) : entries[k] = NullEntry
    THEN CHOOSE k \in 1..Len(entries) :
            /\ entries[k] = NullEntry
            /\ \A j \in 1..(k - 1) : entries[j] # NullEntry
    ELSE Len(entries) + 1
\* achievedMilestone.rating of a null entry throws a TypeError
milestonesThrow(progress) ==
    /\ Has(progress, "milestones")
    /\ firstNull(progress.milestones) <= Len(progress.milestones)

\* the import of the milestones with the flags of the snapshot taken over
importMilestones_replacing(list, progress) ==
    IF Has(progress, "milestones")
    THEN [i \in 1..Len(list) |->
            [list[i] EXCEPT !.achieved =
                \E k \in 1..Len(progress.milestones) :
                    progress.milestones[k].rating = list[i].rating]]
    ELSE list

\* importUserProgress: every milestone whose rating is among the achieved
\* milestones of the snapshot is marked achieved
\* the loop over progress.milestones, which ends at the first null entry
importMilestones(list, progress) ==
    IF Has(progress, "milestones")
    THEN [i \in 1..Len(list) |->
            IF \E k \in 1..(firstNull(progress.milestones) - 1) :
                  /\ Has(progress.milestones[k], "rating")
                  /\ progress.milestones[k].rating = list[i].rating
            THEN [list[i] EXCEPT !.achieved = TRUE]
            ELSE list[i]]
    ELSE list

\* the tracker left as it is and false returned
rejected(t) ==
    [skillProfile |-> t.skillProfile,
     completedLessons |-> t.completedLessons,
     currentLessonIndex |-> t.currentLessonIndex,
     milestones |-> t.milestones,
     result |-> FALSE]

\* the userId test left out
sameUser_anyUser(t, progress) == TRUE
\* progress.userId === this.userId
sameUser(t, progress) ==
    Has(progress, "userId") /\ progress.userId = t.skillProfile.userId

\* importUserProgress(JSON.stringify(progress)) on the tracker t; the catch
\* block returns false with the assignments made so far left in place
importUserProgress(t, progress) ==
    IF Has(progress, "SyntaxError")
    THEN rejected(t)
    ELSE IF ~sameUser(t, progress)
    THEN rejected(t)
    ELSE IF ~Has(progress, "skillProfile")
    THEN rejected(t)
    ELSE
    LET imported == progress.skillProfile
        profile == t.skillProfile
    IN [skillProfile |->
          [userId |-> profile.userId,
           ratings |-> OrObject(imported, "ratings", profile.ratings),
           themePerformance |-> OrObject(imported, "themePerformance",
                                         profile.themePerformance),
           solvedPuzzles |-> OrObject(imported, "solvedPuzzles",
                                      profile.solvedPuzzles),
           struggledThemes |-> OrObject(imported, "struggledThemes",
                                        profile.struggledThemes),
           currentFocus |-> OrString(imported, "currentFocus",
                                     profile.currentFocus),
           currentLevel |-> OrString(imported, "currentLevel",
                                     profile.currentLevel),
           lastRatingChange |-> profile.lastRatingChange],
        completedLessons |-> OrObject(progress, "completedLessons",
                                      t.completedLessons),
        currentLessonIndex |-> OrNumber(progress, "currentLessonIndex",
                                        t.currentLessonIndex),
        milestones |-> importMilestones(t.milestones, progress),
        result |-> ~milestonesThrow(progress)]

\* JSON.stringify then JSON.parse of themePerformance: a Date becomes a string
stringifyThemePerformance(themePerformance) ==
    [i \in 1..Len(themePerformance) |->
        [themePerformance[i] EXCEPT !.lastAttempt =
            IF @ = "Date" THEN "DateString" ELSE @]]
\* the achieved milestones, in their order
achievedOnly(list) == SelectSeq(list, LAMBDA m : m.achieved)
\* JSON.parse(exportUserProgress()) of the tracker t
exportUserProgress(t) ==
    [userId |-> t.skillProfile.userId,
     skillProfile |->
        [ratings |-> t.skillProfile.ratings,
         themePerformance |->
            stringifyThemePerformance(t.skillProfile.themePerformance),
         solvedPuzzles |-> t.skillProfile.solvedPuzzles,
         struggledThemes |-> t.skillProfile.struggledThemes,
         currentFocus |-> t.skillProfile.currentFocus,
         currentLevel |-> t.skillProfile.currentLevel],
     completedLessons |-> t.completedLessons,
     currentLessonIndex |-> t.currentLessonIndex,
     milestones |-> achievedOnly(t.milestones)]

\* ------------------------------------------------ the calls on the tracker
\* the stored puzzles of the generator and a puzzle of another category
PinEasy1 ==
    [id |-> "pin-easy-1", theme |-> "pins", category |-> "tactics",
     difficulty |-> "easy", expectedTime |-> 30]
ForkMedium1 ==
    [id |-> "fork-medium-1", theme |-> "forks", category |-> "tactics",
     difficulty |-> "medium", expectedTime |-> 45]
EndgameHard1 ==
    [id |-> "endgame-hard-1", theme |-> "rook endgames",
     category |-> "endgame", difficulty |-> "hard", rating |-> 2000,
     expectedTime |-> 90]
TrackerPuzzles == {PinEasy1, ForkMedium1, EndgameHard1}

\* how a puzzle ends: solved quickly without a hint, or failed after a hint
Attempts ==
    {[correct |-> TRUE, timeSpent |-> 20, hintsUsed |-> 0],
     [correct |-> FALSE, timeSpent |-> 60, hintsUsed |-> 1]}

\* snapshots found in the store: two of this user, one of another user
LowProgress ==
    [userId |-> UserId,
     skillProfile |->
        [ratings |-> [overall |-> 0, tactics |-> 0, strategy |-> 1200,
                      endgame |-> 1200, openings |-> 1200],
         themePerformance |->
            << [theme |-> "pins", attempts |-> 70, correct |-> 6,
                avgTime |-> FromInt(60), lastAttempt |-> "DateString"] >>,
         solvedPuzzles |-> <<"pin-easy-1">>,
         struggledThemes |->
            << [theme |-> "pins", successRate |-> Rat(3, 35),
                attempts |-> 70] >>,
         currentFocus |-> "pins",
         currentLevel |-> "Beginner"],
     completedLessons |-> <<>>,
     currentLessonIndex |-> 0,
     milestones |-> << [rating |-> 1200, title |-> "Chess Apprentice",
                        achieved |-> TRUE] >>]
HighProgress ==
    [userId |-> UserId,
     skillProfile |->
        [ratings |-> [overall |-> 1990, tactics |-> 1790, strategy |-> 1200,
                      endgame |-> 1400, openings |-> 1200],
         themePerformance |->
            << [theme |-> "skewers", attempts |-> 3, correct |-> 1,
                avgTime |-> FromInt(45), lastAttempt |-> "DateString"],
               [theme |-> "pins", attempts |-> 50, correct |-> 45,
                avgTime |-> FromInt(20), lastAttempt |-> "DateString"],
               [theme |-> "rook endgames", attempts |-> 2, correct |-> 0,
                avgTime |-> FromInt(60), lastAttempt |-> "DateString"],
               [theme |-> "forks", attempts |-> 5, correct |-> 2,
                avgTime |-> FromInt(30), lastAttempt |-> "DateString"] >>,
         solvedPuzzles |-> <<"pin-easy-1", "fork-medium-1",
                             "endgame-hard-1">>,
         struggledThemes |->
            << [theme |-> "skewers", successRate |-> Rat(1, 3),
                attempts |-> 3],
               [theme |-> "forks", successRate |-> Rat(2, 5),
                attempts |-> 5] >>,
         currentFocus |-> "skewers",
         currentLevel |-> "Master"],
     completedLessons |-> <<>>,
     currentLessonIndex |-> 0,
     milestones |-> MarkAchieved(SubSeq(Milestones, 1, 4))]
ForeignProgress ==
    [LowProgress EXCEPT !.userId = "user-2"]
\* a snapshot taken one solved fork away from the end of the first lesson,
\* the two lessons after it completed already
MidProgress ==
    [userId |-> UserId,
     skillProfile |->
        [ratings |-> [overall |-> 1060, tactics |-> 1060, strategy |-> 1200,
                      endgame |-> 1200, openings |-> 1200],
         themePerformance |->
            << [theme |-> "pins", attempts |-> 5, correct |-> 4,
                avgTime |-> FromInt(30), lastAttempt |-> "DateString"],
               [theme |-> "forks", attempts |-> 4, correct |-> 2,
                avgTime |-> FromInt(40), lastAttempt |-> "DateString"] >>,
         solvedPuzzles |-> <<"pin-easy-1", "fork-medium-1">>,
         struggledThemes |-> <<>>,
         currentFocus |-> "forks",
         currentLevel |-> "Beginner"],
     completedLessons |-> <<"opening-principles-1", "basic-tactics-2">>,
     currentLessonIndex |-> 0,
     milestones |-> <<>>]
StoredProgress == {LowProgress, HighProgress, ForeignProgress}

\* a text that JSON.parse rejects
Unparsable == [SyntaxError |-> "Unexpected end of JSON input"]
\* a snapshot of this user without the skillProfile object
NoProfileProgress ==
    [userId |-> UserId,
     completedLessons |-> <<"basic-tactics-1">>,
     currentLessonIndex |-> 1,
     milestones |-> << [rating |-> 1200, title |-> "Chess Apprentice",
                        achieved |-> TRUE] >>]
\* snapshots of this user with an entry of milestones that is no object: a
\* null between two milestones, and a number
CorruptProgress ==
    [MidProgress EXCEPT !.milestones =
        << [rating |-> 1200, title |-> "Chess Apprentice",
            achieved |-> TRUE],
           NullEntry,
           [rating |-> 1400, title |-> "Chess Tactician",
            achieved |-> TRUE] >>]
NumberedProgress ==
    [LowProgress EXCEPT !.milestones =
        << NumberEntry,
           [rating |-> 1200, title |-> "Chess Apprentice",
            achieved |-> TRUE] >>]
ImportedProgress ==
    {LowProgress, MidProgress, ForeignProgress, Unparsable,
     NoProfileProgress, CorruptProgress, NumberedProgress}
\* the puzzles of the first lesson
LessonPuzzles == {PinEasy1, ForkMedium1}

\* a caller calls updateAfterPuzzle(puzzle, correct, timeSpent, hintsUsed)
UpdateAfterPuzzle(puzzle, how, reassess) ==
    \E t \in {trackerUpdateAfterPuzzle(TrackerState, puzzle, how.correct,
                                      how.timeSpent, how.hintsUsed,
                                      reassess)} :
       /\ updates < MaxUpdates
       /\ skillProfile' = t.skillProfile
       /\ completedLessons' = t.completedLessons
       /\ currentLessonIndex' = t.currentLessonIndex
       /\ milestones' = t.milestones
       /\ trackerCall' = [op |-> "updateAfterPuzzle", puzzle |-> puzzle,
                          correct |-> how.correct, result |-> t.result]
       /\ reported' = reported
                      \cup {t.result.achievedMilestones[i].rating :
                              i \in 1..Len(t.result.achievedMilestones)}
       /\ updates' = updates + 1
       /\ UNCHANGED <<puzzleCoreVars, ratingCalc, trapVars, uiVars>>

\* a caller calls importUserProgress with a stored snapshot
ImportUserProgress(progress) ==
    \E t \in {importUserProgress(TrackerState, progress)} :
       /\ skillProfile' = t.skillProfile
       /\ completedLessons' = t.completedLessons
       /\ currentLessonIndex' = t.currentLessonIndex
       /\ milestones' = t.milestones
       /\ trackerCall' = [op |-> "importUserProgress",
                          progress |-> progress, result |-> t.result]
       /\ UNCHANGED <<reported, updates, puzzleCoreVars, ratingCalc, trapVars, uiVars>>

\* a caller calls getNextLesson()
GetNextLesson ==
    \E index \in {getNextLesson(completedLessons,
                                skillProfile.ratings.overall)} :
       /\ currentLessonIndex' = index
       /\ trackerCall' = [op |-> "getNextLesson",
                          result |-> LearningPath[index + 1].id]
       /\ UNCHANGED <<skillProfile, completedLessons, milestones, reported,
                      updates, puzzleCoreVars, ratingCalc, trapVars, uiVars>>

\* the counts the summary and its callers ask the two lists for
SummaryCounts == 1..3

\* a caller calls getStrengthThemes(count) and getWeaknessThemes(count), as
\* getSummary() does for its strengthThemes and weaknessThemes
GetThemeLists(count) ==
    /\ trackerCall' = [op |-> "getThemeLists", count |-> count,
                       strengthThemes |->
                          getStrengthThemes(skillProfile, count),
                       weaknessThemes |->
                          getWeaknessThemes(skillProfile, count)]
    /\ UNCHANGED <<skillProfile, completedLessons, currentLessonIndex,
                   milestones, reported, updates, puzzleCoreVars, ratingCalc,
                   trapVars, uiVars>>

\* ------------------------------------------------- ChessGuerilla: the store
\* the items saveUserData() writes: the tracker's export, the session
\* statistics and the options, each as JSON.parse reads it back
saveUserData(t, stats, opts) ==
    [progress |-> exportUserProgress(t), stats |-> stats, options |-> opts]

\* a caller calls saveUserData()
SaveUserData ==
    /\ localStorage' = saveUserData(TrackerState, sessionStats,
                                    controllerOptions)
    /\ controllerCall' = [op |-> "saveUserData"]
    /\ UNCHANGED <<controllerOptions, sessionStats, timers, app,
                   puzzleCoreVars, trackerVars, ratingCalc, trapVars>>

\* the four properties loadUserData copies from the saved statistics, each
\* with || 0; currentStreak and currentPuzzleHints stay as they are
loadSessionStats(stats, saved) ==
    [stats EXCEPT !.puzzlesSolved = saved.puzzlesSolved,
                  !.puzzlesFailed = saved.puzzlesFailed,
                  !.bestStreak = saved.bestStreak,
                  !.hintsUsed = saved.hintsUsed]

\* a caller calls loadUserData(): the stored export is imported into the
\* tracker, the statistics are copied, the options are merged and the trap
\* switch of the generator is set from them; an item that is missing is
\* skipped
LoadUserData ==
    /\ IF localStorage.progress # NoItem
       THEN \E t \in {importUserProgress(TrackerState,
                                         localStorage.progress)} :
               /\ skillProfile' = t.skillProfile
               /\ completedLessons' = t.completedLessons
               /\ currentLessonIndex' = t.currentLessonIndex
               /\ milestones' = t.milestones
               /\ trackerCall' = [op |-> "importUserProgress",
                                  progress |-> localStorage.progress,
                                  result |-> t.result]
       ELSE UNCHANGED <<skillProfile, completedLessons, currentLessonIndex,
                        milestones, trackerCall>>
    /\ sessionStats' = IF localStorage.stats # NoItem
                       THEN loadSessionStats(sessionStats, localStorage.stats)
                       ELSE sessionStats
    /\ controllerOptions' = IF localStorage.options # NoItem
                            THEN localStorage.options
                            ELSE controllerOptions
    /\ options' = IF localStorage.options # NoItem
                  THEN [options EXCEPT
                          !.includeTraps = localStorage.options.includeTraps]
                  ELSE options
    /\ controllerCall' = [op |-> "loadUserData"]
    /\ UNCHANGED <<reported, updates, timers, localStorage, app,
                   puzzleCoreVars, ratingCalc, trapDatabase, puzzleDatabase,
                   generated>>

\* -------------------------------------------- ChessGuerilla: the handlers
\* the shows of the Hint button the model follows
MaxShownHints == 1
\* the seconds handlePuzzleCompleted measures since the puzzle was started
SecondsSpent == {45}

\* the properties of the puzzle object the tracker reads: the puzzle objects
\* of ControllerPuzzleIds have an id and none of theme, category, rating and
\* expectedTime
TrackedPuzzle(p) == [id |-> p]

\* the difficulty startNewPuzzle asks the generator for
puzzleDifficulty(opts, rating) ==
    IF opts.difficulty # "adaptive" THEN opts.difficulty
    ELSE IF rating < 1200 THEN "easy"
    ELSE IF rating < 1500 THEN "medium"
    ELSE IF rating < 1800 THEN "hard"
    ELSE "expert"

\* recommendedThemes[0] || this.options.theme || null: the options have no
\* theme
puzzleTheme(profile) ==
    LET recommendedThemes == getRecommendedThemes(profile, 1)
    IN IF Len(recommendedThemes) > 0 THEN recommendedThemes[1] ELSE Null

\* the callbacks that wait: "explain" is the callback onDrop schedules after
\* a trap move (1500 ms), "reset" the one that callback schedules (3000 ms).
\* stale marks a callback scheduled in an attempt that has ended since.
Timer(kind, stale) == [kind |-> kind, stale |-> stale]
outdated(queue) == [i \in 1..Len(queue) |-> Timer(queue[i].kind, TRUE)]
without(queue, i) ==
    SubSeq(queue, 1, i - 1) \o SubSeq(queue, i + 1, Len(queue))
\* timers of one delay fire in the order they were scheduled
canFire(queue, i) ==
    /\ i \in 1..Len(queue)
    /\ \A j \in 1..(i - 1) : queue[j].kind # queue[i].kind

\* what was scored on the puzzle since startNewPuzzle handed it out
Outcomes ==
    IF Has(controllerCall, "outcomes") THEN controllerCall.outcomes ELSE <<>>

\* the session statistics after handlePuzzleCompleted(success)
completedStats(stats, success) ==
    IF success
    THEN [stats EXCEPT !.puzzlesSolved = @ + 1,
                       !.currentStreak = @ + 1,
                       !.bestStreak = IF @ >= stats.currentStreak + 1
                                      THEN @ ELSE stats.currentStreak + 1]
    ELSE [stats EXCEPT !.puzzlesFailed = @ + 1, !.currentStreak = 0]

\* the objects handlePuzzleCompleted works on, as one value
ControllerState ==
    [tracker |-> TrackerState, sessionStats |-> sessionStats,
     localStorage |-> localStorage, trackerCall |-> trackerCall,
     reported |-> reported, updates |-> updates]

\* handlePuzzleCompleted(success, isTrap) on c: the statistics are counted,
\* the tracker is updated with the current puzzle and the data is saved
handlePuzzleCompleted(c, opts, p, success, timeSpent, reassess) ==
    LET stats == completedStats(c.sessionStats, success)
        after(t) ==
            [tracker |-> [skillProfile |-> t.skillProfile,
                          completedLessons |-> t.completedLessons,
                          currentLessonIndex |-> t.currentLessonIndex,
                          milestones |-> t.milestones],
             sessionStats |-> stats,
             localStorage |-> IF opts.useLocalStorage
                              THEN saveUserData(t, stats, opts)
                              ELSE c.localStorage,
             trackerCall |-> [op |-> "updateAfterPuzzle",
                              puzzle |-> TrackedPuzzle(p),
                              correct |-> success, result |-> t.result],
             reported |-> c.reported
                          \cup {t.result.achievedMilestones[i].rating :
                                  i \in 1..Len(t.result.achievedMilestones)},
             updates |-> c.updates + 1]
    IN Only({after(t) : t \in
               {trackerUpdateAfterPuzzle(c.tracker, TrackedPuzzle(p), success,
                                         timeSpent, stats.currentPuzzleHints,
                                         reassess)}})

\* the controller and tracker variables take the values of c
Becomes(c) ==
    /\ skillProfile' = c.tracker.skillProfile
    /\ completedLessons' = c.tracker.completedLessons
    /\ currentLessonIndex' = c.tracker.currentLessonIndex
    /\ milestones' = c.tracker.milestones
    /\ sessionStats' = c.sessionStats
    /\ localStorage' = c.localStorage
    /\ trackerCall' = c.trackerCall
    /\ reported' = c.reported
    /\ updates' = c.updates

\* startNewPuzzle(): the generator hands out puzzle object p
StartNewPuzzle(p) ==
    LET s == initializePuzzle(p)
    IN /\ currentPuzzle' = s.currentPuzzle
       /\ moveHistory' = s.moveHistory
       /\ isEvaluating' = s.isEvaluating
       /\ chessEngine' = s.chessEngine
       /\ lastCall' = [op |-> "initializePuzzle",
                       result |-> BoardState(p, s.chessEngine)]
       /\ attempt' = [fed |-> 0, solvedBefore |-> Len(puzzleHistory)]
       /\ sessionStats' = [sessionStats EXCEPT !.currentPuzzleHints = 0]
       /\ timers' = outdated(timers)
       /\ controllerCall' =
             [op |-> "startNewPuzzle",
              difficulty |-> puzzleDifficulty(controllerOptions,
                                              skillProfile.ratings.overall),
              theme |-> puzzleTheme(skillProfile),
              outcomes |-> <<>>]
       /\ UNCHANGED <<puzzleHistory, hintCount, trackerVars, ratingCalc,
                      trapVars, controllerOptions, localStorage, app>>

\* resetCurrentPuzzle(), from the Reset button (op "resetCurrentPuzzle") or
\* from a timer (op "timer")
resetCurrentPuzzle(op) ==
    IF currentPuzzle = Null
    THEN /\ lastCall' = [op |-> "resetPuzzle", result |-> Null]
         /\ controllerCall' = [op |-> op, outcomes |-> Outcomes]
         /\ UNCHANGED <<currentPuzzle, puzzleHistory, moveHistory,
                        isEvaluating, chessEngine, hintCount, attempt,
                        sessionStats>>
    ELSE LET s == initializePuzzle(currentPuzzle)
         IN /\ currentPuzzle' = s.currentPuzzle
            /\ moveHistory' = s.moveHistory
            /\ isEvaluating' = s.isEvaluating
            /\ chessEngine' = s.chessEngine
            /\ lastCall' = [op |-> "resetPuzzle",
                            result |-> BoardState(currentPuzzle, s.chessEngine)]
            /\ attempt' = [fed |-> 0, solvedBefore |-> Len(puzzleHistory)]
            /\ sessionStats' = [sessionStats EXCEPT !.currentPuzzleHints = 0]
            /\ controllerCall' = [op |-> op, outcomes |-> Outcomes]
            /\ UNCHANGED <<puzzleHistory, hintCount>>

\* the Reset button
ResetCurrentPuzzle ==
    /\ resetCurrentPuzzle("resetCurrentPuzzle")
    /\ timers' = outdated(timers)
    /\ UNCHANGED <<trackerVars, ratingCalc, trapVars, controllerOptions,
                   localStorage, app>>

\* the waiting callback number i runs
TimerFires(i) ==
    /\ canFire(timers, i)
    /\ IF timers[i].kind = "explain"
       THEN /\ timers' = Append(without(timers, i),
                                Timer("reset", timers[i].stale))
            /\ controllerCall' = [op |-> "explain", outcomes |-> Outcomes]
            /\ UNCHANGED <<puzzleCoreVars, sessionStats>>
       ELSE /\ resetCurrentPuzzle("timer")
            /\ timers' = outdated(without(timers, i))
    /\ UNCHANGED <<trackerVars, ratingCalc, trapVars, controllerOptions,
                   localStorage, app>>

\* orientation.charAt(0) of the orientations 'white' and 'black'
playerColor(orientation) == IF orientation = "white" THEN "w" ELSE "b"

\* onDragStart(source, piece): the piece may be picked up
onDragStart(source) ==
    /\ currentPuzzle # Null
    /\ source \in DOMAIN chessEngine.board
    /\ chessEngine.board[source] # NoPiece
    /\ chessEngine.board[source].color
          = playerColor(Puzzles[currentPuzzle].orientation)
    /\ chessEngine.board[source].color = chessEngine.turn

\* the promotion onDrop passes to evaluateMove
droppedPromotion(piece, target) ==
    IF piece.type = "p" /\ target[2] = LastRank(piece.color)
    THEN <<"q">> ELSE Undefined

\* onDrop(source, target, piece) for a piece that could be picked up
OnDrop(source, target) ==
    /\ onDragStart(source)
    /\ \E promotion \in {droppedPromotion(chessEngine.board[source], target)} :
       \E r \in {evaluateMove(CoreState, source, target, promotion)} :
       LET valid == r.result.kind = "valid"
           completed == valid /\ r.result.completed
           isTrap == valid /\ r.result.isTrap
           calls == (IF completed THEN <<"solved">> ELSE <<>>)
                    \o (IF isTrap THEN <<"trap">> ELSE <<>>)
       IN /\ Len(r.puzzleHistory) <= MaxSolved
          /\ chessEngine' = r.chessEngine
          /\ moveHistory' = r.moveHistory
          /\ puzzleHistory' = r.puzzleHistory
          /\ isEvaluating' = r.isEvaluating
          /\ lastCall' = [op |-> "evaluateMove",
                          promotion |-> promotion,
                          moveNotation |-> IF valid
                                           THEN moveNotationOf(source, target,
                                                  promotionParam(promotion))
                                           ELSE <<>>,
                          result |-> r.result]
          /\ attempt' = [attempt EXCEPT !.fed = Fed(source, target, promotion)]
          /\ IF calls = <<>>
             THEN UNCHANGED <<trackerVars, sessionStats, localStorage>>
             ELSE \E timeSpent \in SecondsSpent,
                     first \in BOOLEAN, second \in BOOLEAN :
                  \E c1 \in {IF completed
                             THEN handlePuzzleCompleted(ControllerState,
                                     controllerOptions, currentPuzzle, TRUE,
                                     timeSpent, first)
                             ELSE ControllerState} :
                  \E c2 \in {IF isTrap
                             THEN handlePuzzleCompleted(c1, controllerOptions,
                                     currentPuzzle, FALSE, timeSpent, second)
                             ELSE c1} :
                     /\ c2.updates <= MaxUpdates
                     /\ Becomes(c2)
          /\ timers' = IF isTrap THEN Append(timers, Timer("explain", FALSE))
                                 ELSE timers
          /\ controllerCall' =
                [op |-> "onDrop",
                 returned |-> IF valid /\ (r.result.isCorrect \/ r.result.isTrap)
                              THEN "undefined" ELSE "snapback",
                 completedCalls |-> calls,
                 outcomes |-> Outcomes \o calls]
          /\ UNCHANGED <<currentPuzzle, hintCount, ratingCalc, trapVars,
                         controllerOptions, app>>

\* showHint(): the Hint button
ShowHint ==
    /\ sessionStats.hintsUsed < MaxShownHints
    /\ IF currentPuzzle = Null
       THEN /\ lastCall' = [op |-> "getHint", result |-> NullResult]
            /\ UNCHANGED <<hintCount, sessionStats>>
       ELSE LET r == getHint(CoreState, hintCount[currentPuzzle])
            IN /\ r.hintCount <= MaxHints
               /\ hintCount' = [hintCount EXCEPT ![currentPuzzle] = r.hintCount]
               /\ lastCall' = [op |-> "getHint", result |-> r.hint]
               /\ sessionStats' =
                     IF r.hint = NullResult THEN sessionStats
                     ELSE [sessionStats EXCEPT !.hintsUsed = @ + 1,
                                               !.currentPuzzleHints = @ + 1]
    /\ controllerCall' = [op |-> "showHint", outcomes |-> Outcomes]
    /\ UNCHANGED <<currentPuzzle, puzzleHistory, moveHistory, isEvaluating,
                   chessEngine, attempt, trackerVars, ratingCalc, trapVars,
                   controllerOptions, timers, localStorage, app>>

\* showSolution(): the Solution button
ShowSolution ==
    IF currentPuzzle = Null
    THEN /\ controllerCall' = [op |-> "showSolution", outcomes |-> Outcomes]
         /\ UNCHANGED <<puzzleCoreVars, trackerVars, ratingCalc, trapVars,
                        controllerOptions, sessionStats, timers, localStorage,
                        app>>
    ELSE \E timeSpent \in SecondsSpent, reassess \in BOOLEAN :
         \E c \in {handlePuzzleCompleted(ControllerState, controllerOptions,
                                         currentPuzzle, FALSE, timeSpent,
                                         reassess)} :
            /\ c.updates <= MaxUpdates
            /\ Becomes(c)
            /\ controllerCall' = [op |-> "showSolution",
                                  outcomes |-> Append(Outcomes, "shown")]
            /\ UNCHANGED <<puzzleCoreVars, ratingCalc, trapVars,
                           controllerOptions, timers, app>>

\* ------------------------------------------------ app.js: the board page
\* callbacks that wait are not scheduled beyond MaxPending
MaxPending == 2
\* puzzleCompleted() is not followed beyond MaxAppSolved
MaxAppSolved == 2

\* the list chessPuzzles the page is loaded with: two puzzles on the board
\* above, the second one opening with a move of the opponent
chessPuzzles ==
    << [id |-> "page-1", orientation |-> "white",
        fen |-> [board |-> [EmptyBoard EXCEPT ![e2] = Pc("p", "w"),
                                              ![f1] = Pc("b", "w"),
                                              ![e7] = Pc("p", "b")],
                 turn |-> "w"],
        moves |-> <<e2 \o e4, e7 \o e5, f1 \o c4>>],
       [id |-> "page-2", orientation |-> "white",
        fen |-> [board |-> [EmptyBoard EXCEPT ![e2] = Pc("p", "w"),
                                              ![f1] = Pc("b", "w"),
                                              ![e7] = Pc("p", "b")],
                 turn |-> "b"],
        moves |-> <<e7 \o e5, e2 \o e4>>] >>

\* the delay of the three callbacks the page schedules
delayOf(kind) == IF kind = "opening" THEN 1000 ELSE 500
\* callbacks of one delay run in the order they were scheduled
appCanFire(queue, i) ==
    /\ i \in 1..Len(queue)
    /\ \A j \in 1..(i - 1) : delayOf(queue[j].kind) # delayOf(queue[i].kind)

\* the globals after the page's script was read and initGame() ran
initGame ==
    [loaded |-> TRUE, game |-> NewChess, puzzleIndex |-> 0, movesCount |-> 0,
     solvedCount |-> 0, isHintShown |-> FALSE, timers |-> <<>>]

\* the current puzzle of the page a
appPuzzle(a) == chessPuzzles[a.puzzleIndex + 1]

\* the opponent is to move in the game
opponentToMove(game, puzzle) ==
    \/ game.turn = "w" /\ puzzle.orientation = "black"
    \/ game.turn = "b" /\ puzzle.orientation = "white"

\* loadPuzzle(index); the callbacks that wait are from now on callbacks of
\* an earlier load
loadPuzzle(a, index) ==
    IF index < 0 \/ index >= Len(chessPuzzles) THEN a
    ELSE LET puzzle == chessPuzzles[index + 1]
             game == EngineLoad(puzzle.fen)
         IN [a EXCEPT !.movesCount = 0,
                      !.isHintShown = FALSE,
                      !.game = game,
                      !.timers = IF opponentToMove(game, puzzle)
                                 THEN Append(outdated(a.timers),
                                             Timer("opening", FALSE))
                                 ELSE outdated(a.timers)]

\* puzzleCompleted()
puzzleCompleted(a) == [a EXCEPT !.solvedCount = @ + 1]

\* makeOpponentMove(): the next ply of the line is played on the game,
\* whatever game.move() returns
makeOpponentMove(a) ==
    LET puzzle == appPuzzle(a)
    IN IF a.movesCount >= Len(puzzle.moves) THEN a
       ELSE LET nextMove == puzzle.moves[a.movesCount + 1]
                from == SubSeq(nextMove, 1, 2)
                to == SubSeq(nextMove, 3, 4)
                moved == [a EXCEPT
                            !.game = IF EngineLegal(a.game, from, to, <<"q">>)
                                     THEN EngineMove(a.game, from, to, <<"q">>)
                                     ELSE a.game,
                            !.movesCount = @ + 1]
            IN IF moved.movesCount >= Len(puzzle.moves)
               THEN puzzleCompleted(moved) ELSE moved

\* onDragStart(source, piece) of the page: the piece may be picked up
appOnDragStart(a, source) ==
    LET puzzle == appPuzzle(a)
    IN /\ source \in DOMAIN a.game.board
       /\ a.game.board[source] # NoPiece
       /\ ~EngineGameOver(a.game)
       /\ ~opponentToMove(a.game, puzzle)
       /\ a.game.board[source].color = playerColor(puzzle.orientation)

\* onDrop(source, target) of the page
appOnDrop(a, source, target) ==
    IF ~EngineLegal(a.game, source, target, <<"q">>) THEN a
    ELSE LET puzzle == appPuzzle(a)
             moveNotation == source \o target
             moved == [a EXCEPT !.game = EngineMove(a.game, source, target,
                                                    <<"q">>)]
         IN IF /\ a.movesCount < Len(puzzle.moves)
               /\ moveNotation = puzzle.moves[a.movesCount + 1]
            THEN LET counted == [moved EXCEPT !.movesCount = @ + 1]
                 IN IF counted.movesCount >= Len(puzzle.moves)
                    THEN puzzleCompleted(counted)
                    ELSE [counted EXCEPT
                            !.timers = Append(@, Timer("reply", FALSE))]
            ELSE [moved EXCEPT !.timers = Append(@, Timer("undo", FALSE))]

\* the page after the waiting callback number i ran
appTimer(a, i) ==
    LET rest == [a EXCEPT !.timers = without(a.timers, i)]
    IN IF a.timers[i].kind = "undo"
       THEN [rest EXCEPT !.game = EngineUndo(a.game)]
       ELSE makeOpponentMove(rest)

\* the page takes the value a, within the bounds
AppBecomes(a) ==
    /\ Len(a.timers) <= MaxPending
    /\ a.solvedCount <= MaxAppSolved
    /\ app' = a
    /\ UNCHANGED <<puzzleCoreVars, trackerVars, ratingCalc, trapVars,
                   controllerOptions, sessionStats, timers, controllerCall,
                   localStorage>>

\* DOMContentLoaded: initGame(), loadPuzzle(0)
PageLoaded ==
    /\ ~app.loaded
    /\ AppBecomes(loadPuzzle(initGame, 0))

\* the Reset button: resetPuzzle()
AppResetPuzzle ==
    /\ app.loaded
    /\ AppBecomes(loadPuzzle(app, app.puzzleIndex))

\* the Next button: nextPuzzle()
AppNextPuzzle ==
    /\ app.loaded
    /\ \E index \in {(app.puzzleIndex + 1) % Len(chessPuzzles)} :
          AppBecomes(loadPuzzle([app EXCEPT !.puzzleIndex = index], index))

\* the Hint button: showHint()
AppShowHint ==
    /\ app.loaded
    /\ AppBecomes(IF app.isHintShown
                     \/ app.movesCount >= Len(appPuzzle(app).moves)
                  THEN app ELSE [app EXCEPT !.isHintShown = TRUE])

\* a piece is dropped on the board of the page
AppOnDrop(source, target) ==
    /\ app.loaded
    /\ appOnDragStart(app, source)
    /\ AppBecomes(appOnDrop(app, source, target))

\* the waiting callback number i of the page runs
AppTimerFires(i) ==
    /\ app.loaded
    /\ appCanFire(app.timers, i)
    /\ AppBecomes(appTimer(app, i))

\* --------------------------------------------- one rating calculation
\* a puzzle with the given rating and expectedTime, 0 standing for a
\* property the puzzle object does not have
RatedPuzzle(rating, expectedTime) ==
    [key \in {"id"} \cup (IF rating = 0 THEN {} ELSE {"rating"})
                    \cup (IF expectedTime = 0 THEN {} ELSE {"expectedTime"})
       |-> CASE key = "id" -> "rated"
             [] key = "rating" -> rating
             [] key = "expectedTime" -> expectedTime]

\* the values the calculation is asked for
PuzzleRatings == {0, 1000, 1500, 2000}
ExpectedTimes == {0, 30, 90}
OverallRatings == {1200, 1295, 1390, 1990}
TimesSpent == {0, 20, 30, 45, 60, 130}
HintsUsed == 0..6

\* the profile of a user whose overall rating is overall
ProfileRated(overall) ==
    [NewUserSkillProfile EXCEPT !.ratings.overall = overall]

RatingQuestions ==
    {[state |-> "asked", puzzle |-> RatedPuzzle(rating, expectedTime),
      correct |-> correct, overall |-> overall, timeSpent |-> timeSpent,
      hintsUsed |-> hintsUsed, hintFactor |-> DZero, ratingChange |-> 0] :
       rating \in PuzzleRatings, expectedTime \in ExpectedTimes,
       correct \in BOOLEAN, overall \in OverallRatings,
       timeSpent \in TimesSpent, hintsUsed \in HintsUsed}

\* updateAfterPuzzle is called on the profile and returns lastRatingChange
CalculateRatingChange ==
    /\ ratingCalc.state = "asked"
    /\ ratingCalc' =
          [ratingCalc EXCEPT
             !.state = "returned",
             !.hintFactor = hintFactor(ratingCalc.hintsUsed),
             !.ratingChange =
                updateAfterPuzzle(ProfileRated(ratingCalc.overall),
                                  ratingCalc.puzzle, ratingCalc.correct,
                                  ratingCalc.timeSpent, ratingCalc.hintsUsed,
                                  FALSE).lastRatingChange]
    /\ UNCHANGED <<puzzleCoreVars, trackerVars, trapVars, uiVars>>

\* -------------------------------------------------------------- PuzzleTraps
\* the texts of this part (positions, explanations, themes) are strings, cut
\* with SubSeq and joined with \o
\* the character of a text at a place
charAt(text, i) == SubSeq(text, i, i)
UpperCaseLetters == "ABCDEFGHIJKLMNOPQRSTUVWXYZ"
LowerCaseLetters == "abcdefghijklmnopqrstuvwxyz"
\* the place of a character in a text, 0 when it is not there
indexOf(text, char) ==
    IF \E i \in 1..Len(text) : charAt(text, i) = char
    THEN CHOOSE i \in 1..Len(text) :
            /\ charAt(text, i) = char
            /\ \A j \in 1..(i - 1) : charAt(text, j) # char
    ELSE 0
\* the characters of a text
charsOf(text) == {charAt(text, i) : i \in 1..Len(text)}
UpperCase == charsOf(UpperCaseLetters)
LowerCase == charsOf(LowerCaseLetters)
\* the lower case letter of every upper case letter
LowerOf ==
    [char \in UpperCase |->
        charAt(LowerCaseLetters, indexOf(UpperCaseLetters, char))]
\* /[a-zA-Z]/.test(char)
isLetter(char) == char \in UpperCase \/ char \in LowerCase
\* String.toLowerCase for the texts of the program
RECURSIVE toLowerCase(_)
toLowerCase(text) ==
    IF text = "" THEN ""
    ELSE (IF Head(text) \in UpperCase THEN LowerOf[Head(text)]
          ELSE Head(text))
         \o toLowerCase(Tail(text))
\* String.includes
includes(text, part) ==
    \E i \in 0..(Len(text) - Len(part)) :
       SubSeq(text, i + 1, i + Len(part)) = part
\* fen.split(' ')[0]
piecePlacement(fen) ==
    IF indexOf(fen, " ") = 0 THEN fen
    ELSE SubSeq(fen, 1, indexOf(fen, " ") - 1)

\* countPiecesFromFen
countPiecesFromFen(fen) ==
    LET pieceCount(placement) ==
           Cardinality({i \in 1..Len(placement) :
                          isLetter(charAt(placement, i))})
    IN Only({pieceCount(placement) : placement \in {piecePlacement(fen)}})

\* the choice of the catalogue with 10 pieces counted as a middlegame
trapCategory_below10(piecesCount) ==
    IF piecesCount < 10 THEN "endgameTraps"
    ELSE IF piecesCount <= 20 THEN "middlegameTraps"
    ELSE "openingTraps"
\* the catalogue enhancePuzzleWithTraps draws from
trapCategory(piecesCount) ==
    IF piecesCount <= 10 THEN "endgameTraps"
    ELSE IF piecesCount <= 20 THEN "middlegameTraps"
    ELSE "openingTraps"

\* the userProfile argument left out: null
NoUserProfile == [json |-> "null"]

\* the traps selectTrapBasedOnUserProfile can return; none when it returns
\* null
selectTrapBasedOnUserProfile(userProfile, category) ==
    IF userProfile = NoUserProfile \/ ~Has(userProfile, "themePerformance")
    THEN {}
    ELSE LET relevant(weakThemes) ==
                {trap \in Range(trapDatabase[category]) :
                   \E explanation \in {toLowerCase(trap.explanation)} :
                      \E theme \in weakThemes :
                         includes(explanation, theme)}
         IN Only({relevant(weakThemes) : weakThemes \in
                    {{toLowerCase(theme) : theme \in
                        Range(getWeaknessThemes(userProfile, 3))}}})

\* the object enhancePuzzleWithTraps writes to, were it the puzzle given
clonePuzzle_same(puzzle) == [same |-> TRUE, puzzle |-> puzzle]
\* JSON.parse(JSON.stringify(puzzle)): another object with the fields of the
\* puzzle, which are strings, numbers and arrays and objects of them
clonePuzzle(puzzle) == [same |-> FALSE, puzzle |-> puzzle]

\* the puzzle object with hasTrap, trapInfo and alternativePaths assigned,
\* its other fields kept: those of a generated puzzle, of a stored puzzle, or
\* of a position with id, fen, moves and theme
assigned(puzzle, hasTrap, trapInfo, alternativePaths) ==
    IF Has(puzzle, "rating")
    THEN [id |-> puzzle.id, fen |-> puzzle.fen, moves |-> puzzle.moves,
          theme |-> puzzle.theme, category |-> puzzle.category,
          difficulty |-> puzzle.difficulty, rating |-> puzzle.rating,
          objective |-> puzzle.objective,
          explanation |-> puzzle.explanation,
          orientation |-> puzzle.orientation,
          expectedTime |-> puzzle.expectedTime,
          hasTrap |-> hasTrap, trapInfo |-> trapInfo,
          alternativePaths |-> alternativePaths]
    ELSE IF Has(puzzle, "category")
    THEN [id |-> puzzle.id, fen |-> puzzle.fen, moves |-> puzzle.moves,
          theme |-> puzzle.theme, category |-> puzzle.category,
          difficulty |-> puzzle.difficulty,
          objective |-> puzzle.objective,
          explanation |-> puzzle.explanation,
          orientation |-> puzzle.orientation,
          expectedTime |-> puzzle.expectedTime,
          hasTrap |-> hasTrap, trapInfo |-> trapInfo,
          alternativePaths |-> alternativePaths]
    ELSE [id |-> puzzle.id, fen |-> puzzle.fen, moves |-> puzzle.moves,
          theme |-> puzzle.theme,
          hasTrap |-> hasTrap, trapInfo |-> trapInfo,
          alternativePaths |-> alternativePaths]

\* the trap written into a puzzle object
attachTrap(puzzle, selectedTrap) ==
    assigned(puzzle, TRUE,
             [name |-> selectedTrap.name,
              trapMove |-> selectedTrap.trapMove,
              correctDefense |-> selectedTrap.correctDefense,
              followUp |-> selectedTrap.followUp,
              explanation |-> selectedTrap.explanation],
             Append(OrObject(puzzle, "alternativePaths", <<>>),
                    [move |-> selectedTrap.trapMove,
                     response |-> selectedTrap.correctDefense,
                     evaluation |-> "mistake",
                     explanation |-> selectedTrap.explanation]))

\* enhancePuzzleWithTraps(puzzle, userProfile): what it can return, one
\* outcome for each trap Math.random can select, each with the puzzle object
\* of the caller as the call leaves it
enhancePuzzleWithTraps(puzzle, userProfile) ==
    LET enhancedPuzzle == clonePuzzle(puzzle)
        outcomes(selected) ==
           {[given |-> IF enhancedPuzzle.same
                       THEN attachTrap(puzzle, selectedTrap)
                       ELSE puzzle,
             returned |-> attachTrap(enhancedPuzzle.puzzle, selectedTrap)] :
              selectedTrap \in selected}
        selection(category) ==
           LET choice(fitting) == IF fitting # {} THEN fitting
                                  ELSE Range(trapDatabase[category])
           IN Only({choice(fitting) : fitting \in
                      {selectTrapBasedOnUserProfile(userProfile, category)}})
    IN outcomes(selection(trapCategory(countPiecesFromFen(puzzle.fen))))

\* ---------------------------------------------------------- PuzzleGenerator
\* the outcomes of Math.random() < frequency
randomBelow(frequency) ==
    IF frequency.n <= 0 THEN {FALSE}
    ELSE IF frequency.n >= frequency.d THEN {TRUE}
    ELSE BOOLEAN

\* the templates of generateRandomPuzzle
Templates ==
    << [fen |-> "r1bqkbnr/ppp2ppp/2np4/4p3/2B1P3/5N2/PPPP1PPP/RNBQK2R w KQkq - 0 4",
        moves |-> <<"c4f7", "e8f7", "d1f3">>,
        orientation |-> "white",
        objective |-> "Find the tactical opportunity"],
       [fen |-> "r1bqkb1r/pppp1ppp/2n2n2/4p3/4P3/2N2N2/PPPP1PPP/R1BQKB1R w KQkq - 4 4",
        moves |-> <<"f3e5", "d7d6", "e5c6">>,
        orientation |-> "white",
        objective |-> "Find the best tactical move"],
       [fen |-> "r1bqkb1r/ppp2ppp/2n2n2/3pp3/4P3/2N2N2/PPPP1PPP/R1BQKB1R w KQkq d6 0 5",
        moves |-> <<"e4d5", "c6d4", "f3d4">>,
        orientation |-> "white",
        objective |-> "Find the best capture"] >>
\* Date.now().toString(36) at the time of a call
TimeStamps == {"mh2k9zq1"}

\* the puzzle generateRandomPuzzle builds from a template
randomPuzzle(template, theme, difficulty, stamp) ==
    LET difficultyRating == [easy |-> 1000, medium |-> 1500,
                             hard |-> 2000, expert |-> 2500]
    IN
    [id |-> theme \o "-" \o difficulty \o "-" \o stamp,
     fen |-> template.fen,
     moves |-> template.moves,
     theme |-> theme,
     category |-> "tactics",
     difficulty |-> difficulty,
     rating |-> OrNumber(difficultyRating, difficulty, 1500),
     objective |-> template.objective,
     explanation |-> "This is a " \o theme \o " puzzle at " \o difficulty
                     \o " level.",
     orientation |-> template.orientation,
     expectedTime |-> IF difficulty = "easy" THEN 30
                      ELSE IF difficulty = "medium" THEN 60 ELSE 90]

\* the results of an enhancePuzzleWithTraps call made without a profile
enhanced(puzzle) ==
    {outcome.returned :
       outcome \in enhancePuzzleWithTraps(puzzle, NoUserProfile)}

\* generateRandomPuzzle(theme, difficulty): the puzzles it can return
generateRandomPuzzle(opts, theme, difficulty) ==
    UNION {IF opts.includeTraps /\ below
           THEN enhanced(randomPuzzle(Templates[k], theme, difficulty,
                                      stamp))
           ELSE {randomPuzzle(Templates[k], theme, difficulty, stamp)} :
             k \in 1..Len(Templates), stamp \in TimeStamps,
             below \in (IF opts.includeTraps
                        THEN randomBelow(opts.trapFrequency)
                        ELSE {FALSE})}

\* the puzzles of a theme and difficulty in the database, none when the
\* database has no such theme or difficulty
puzzlesOf(theme, difficulty) ==
    IF Has(puzzleDatabase, theme) /\ Has(puzzleDatabase[theme], difficulty)
    THEN puzzleDatabase[theme][difficulty]
    ELSE <<>>

\* the puzzles generatePuzzle selects from: those of the theme, else those of
\* the first theme that has any of the difficulty
matching(theme, difficulty) ==
    IF puzzlesOf(theme, difficulty) # <<>>
    THEN puzzlesOf(theme, difficulty)
    ELSE IF \E k \in 1..Len(DatabaseThemes) :
               puzzlesOf(DatabaseThemes[k], difficulty) # <<>>
    THEN puzzlesOf(DatabaseThemes[
            CHOOSE k \in 1..Len(DatabaseThemes) :
               /\ puzzlesOf(DatabaseThemes[k], difficulty) # <<>>
               /\ \A j \in 1..(k - 1) :
                     puzzlesOf(DatabaseThemes[j], difficulty) = <<>>],
            difficulty)
    ELSE <<>>

\* generatePuzzle(theme, difficulty, includeTrap) with the arguments passed
\* as the fields of args, an argument left out taking its default: the
\* puzzles it can return
generatePuzzle(opts, args) ==
    LET themes == IF OrString(args, "theme", "") = ""
                  THEN Range(DatabaseThemes)
                  ELSE {args.theme}
        difficulty == IF Has(args, "difficulty") THEN args.difficulty
                      ELSE "medium"
        includeTraps == IF Has(args, "includeTrap") THEN {args.includeTrap}
                        ELSE IF opts.includeTraps
                        THEN randomBelow(opts.trapFrequency)
                        ELSE {FALSE}
        served(theme, includeTrap) ==
            LET puzzles == matching(theme, difficulty)
            IN IF puzzles = <<>>
               THEN generateRandomPuzzle(opts, theme, difficulty)
               ELSE UNION {IF includeTrap /\ opts.includeTraps
                           THEN enhanced(clonePuzzle(puzzle).puzzle)
                           ELSE {clonePuzzle(puzzle).puzzle} :
                             puzzle \in Range(puzzles)}
    IN UNION {served(theme, includeTrap) :
                theme \in themes, includeTrap \in includeTraps}

\* ---------------------------------------- the calls on generator and traps
\* positions of 9, 10, 11, 20 and 21 pieces, and one of the starting array
Positions ==
    {"6k1/5ppp/8/8/8/8/5PPP/R5K1 w - - 0 1",
     "r5k1/5ppp/8/8/8/8/5PPP/R5K1 w - - 0 1",
     "r5k1/4pppp/8/8/8/8/5PPP/R5K1 w - - 0 1",
     "r2q2k1/pp3ppp/p1n5/8/8/2N5/PPP2PPP/R2Q2K1 w - - 0 1",
     "r2q1rk1/pp3ppp/p1n5/8/8/2N5/PPP2PPP/R2Q2K1 w - - 0 1",
     "rnbqkbnr/pppppppp/8/8/8/8/PPPPPPPP/RNBQKBNR w KQkq - 0 1"}
\* the puzzles given to enhancePuzzleWithTraps: a bare position, and a puzzle
\* that has a trap and an alternative path already
BarePuzzle(fen) ==
    [id |-> "position", fen |-> fen, moves |-> <<"a1a8">>,
     theme |-> "general"]
TrappedPuzzle(fen) ==
    [id |-> "trapped", fen |-> fen, moves |-> <<"a1a8">>,
     theme |-> "general", hasTrap |-> TRUE,
     trapInfo |-> [name |-> "Back Rank Mate Trap", trapMove |-> "a1a8",
                   correctDefense |-> "f7f6", followUp |-> "",
                   explanation |-> "Back rank mate trap."],
     alternativePaths |->
        << [move |-> "g1h1", response |-> "a8a1",
            evaluation |-> "blunder",
            explanation |-> "The king steps into the mate."] >>]
\* the puzzle of a position, with a trap or without
GivenPuzzle(fen, trapped) ==
    IF trapped THEN TrappedPuzzle(fen) ELSE BarePuzzle(fen)

\* profiles by their struggled themes, weakest first
Struggling(themes) ==
    [NewUserSkillProfile EXCEPT !.struggledThemes =
        [i \in 1..Len(themes) |->
            [theme |-> themes[i], successRate |-> Rat(0, 1),
             attempts |-> 3]]]
\* the struggled themes of the profiles passed: none, as for a new user,
\* themes no trap speaks of, a theme in other case, and more than three
StruggledThemes ==
    {<<>>,
     <<"pins", "forks">>,
     <<"Forking">>,
     <<"pins", "QUEEN", "skewers">>,
     <<"pins", "forks", "skewers", "queen">>}

\* the arguments of the generatePuzzle calls
Difficulties == {"easy", "medium", "hard", "expert"}
RequestedThemes == {"", "pins", "forks", "skewers"}

\* a caller calls enhancePuzzleWithTraps(puzzle) with the puzzle of a
\* position, no profile passed
EnhancePuzzleWithTraps(fen, trapped) ==
    \E outcome \in enhancePuzzleWithTraps(GivenPuzzle(fen, trapped),
                                          NoUserProfile) :
       /\ generated' = [op |-> "enhancePuzzleWithTraps",
                        puzzle |-> GivenPuzzle(fen, trapped),
                        userProfile |-> NoUserProfile,
                        given |-> outcome.given,
                        result |-> outcome.returned]
       /\ UNCHANGED <<trapDatabase, puzzleDatabase, options, puzzleCoreVars,
                      trackerVars, ratingCalc, uiVars>>

\* a caller calls enhancePuzzleWithTraps(puzzle, userProfile) with the
\* puzzle of a position and the profile of a user who struggles with themes
EnhancePuzzleForProfile(fen, trapped, themes) ==
    \E outcome \in enhancePuzzleWithTraps(GivenPuzzle(fen, trapped),
                                          Struggling(themes)) :
       /\ generated' = [op |-> "enhancePuzzleWithTraps",
                        puzzle |-> GivenPuzzle(fen, trapped),
                        userProfile |-> Struggling(themes),
                        given |-> outcome.given,
                        result |-> outcome.returned]
       /\ UNCHANGED <<trapDatabase, puzzleDatabase, options, puzzleCoreVars,
                      trackerVars, ratingCalc, uiVars>>

\* a caller calls generatePuzzle(theme, difficulty); a theme of '' is a
\* theme not passed
GeneratePuzzle(theme, difficulty) ==
    \E puzzle \in generatePuzzle(options, [theme |-> theme,
                                           difficulty |-> difficulty]) :
       /\ generated' = [op |-> "generatePuzzle",
                        args |-> [theme |-> theme,
                                  difficulty |-> difficulty],
                        includeTraps |-> options.includeTraps,
                        result |-> puzzle]
       /\ UNCHANGED <<trapDatabase, puzzleDatabase, options, puzzleCoreVars,
                      trackerVars, ratingCalc, uiVars>>

\* a caller calls generatePuzzle(theme, difficulty, includeTrap)
GeneratePuzzleWithTrap(theme, difficulty, includeTrap) ==
    \E puzzle \in generatePuzzle(options, [theme |-> theme,
                                           difficulty |-> difficulty,
                                           includeTrap |-> includeTrap]) :
       /\ generated' = [op |-> "generatePuzzle",
                        args |-> [theme |-> theme,
                                  difficulty |-> difficulty,
                                  includeTrap |-> includeTrap],
                        includeTraps |-> options.includeTraps,
                        result |-> puzzle]
       /\ UNCHANGED <<trapDatabase, puzzleDatabase, options, puzzleCoreVars,
                      trackerVars, ratingCalc, uiVars>>

\* a caller calls setTrapGeneration(enable)
SetTrapGeneration(enable) ==
    /\ options' = [options EXCEPT !.includeTraps = enable]
    /\ generated' = [op |-> "setTrapGeneration", enable |-> enable,
                     result |-> enable]
    /\ UNCHANGED <<trapDatabase, puzzleDatabase, puzzleCoreVars, trackerVars,
                   ratingCalc, uiVars>>

\* ------------------------------------------------------------ the program
Next ==
    \/ \E p \in PuzzleIds : InitializePuzzle(p)
    \/ \E from \in LineSquares, to \in LineSquares,
          promotionArg \in PromotionArgs :
          EvaluateMove(from, to, promotionArg)
    \/ ResetPuzzle
    \/ GetHint

Spec == Init /\ [][Next]_vars

\* the calls on the SkillTracker
TrackerNext ==
    \/ \E puzzle \in TrackerPuzzles, how \in Attempts, reassess \in BOOLEAN :
          UpdateAfterPuzzle(puzzle, how, reassess)
    \/ \E progress \in StoredProgress : ImportUserProgress(progress)
    \/ \E count \in SummaryCounts : GetThemeLists(count)

TrackerSpec == Init /\ [][TrackerNext]_vars

\* SkillTracker with its lessons and the store: puzzles of the first lesson,
\* getNextLesson, snapshots good and bad, and the tracker's own export
ProgressNext ==
    \/ \E puzzle \in LessonPuzzles, how \in Attempts, reassess \in BOOLEAN :
          UpdateAfterPuzzle(puzzle, how, reassess)
    \/ GetNextLesson
    \/ \E progress \in ImportedProgress : ImportUserProgress(progress)
    \/ ImportUserProgress(exportUserProgress(TrackerState))

ProgressSpec == Init /\ [][ProgressNext]_vars

\* the SkillTracker of the controller and the store: puzzles of the first
\* lesson, getNextLesson, a snapshot imported, and the controller saving the
\* tracker's export and loading it again
StorageNext ==
    \/ \E puzzle \in LessonPuzzles, how \in Attempts, reassess \in BOOLEAN :
          UpdateAfterPuzzle(puzzle, how, reassess)
    \/ GetNextLesson
    \/ ImportUserProgress(MidProgress)
    \/ SaveUserData
    \/ LoadUserData

StorageSpec == Init /\ [][StorageNext]_vars

\* ------------------------------------------ decorated puzzles on the core
\* the placement of a FEN with every digit written as that many dots
RECURSIVE expandPlacement(_)
expandPlacement(text) ==
    IF text = "" THEN ""
    ELSE (IF indexOf("12345678", Head(text)) > 0
          THEN SubSeq("........", 1, indexOf("12345678", Head(text)))
          ELSE Head(text))
         \o expandPlacement(Tail(text))

\* the piece a FEN puts on a square
pieceOn(fen, square) ==
    LET rows == expandPlacement(piecePlacement(fen))
        file == indexOf("abcdefgh", square[1])
        rank == indexOf("12345678", square[2])
        char == charAt(rows, (8 - rank) * 9 + file)
    IN IF char = "." THEN NoPiece
       ELSE IF char \in UpperCase THEN Pc(LowerOf[char], "w")
       ELSE Pc(char, "b")

\* new Chess(fen) / load(fen): the position of a FEN on the modelled squares
positionOf(fen) ==
    [board |-> [square \in Squares |-> pieceOn(fen, square)],
     turn |-> charAt(fen, indexOf(fen, " ") + 1)]

\* a move string as the squares and the promotion piece it names
notationOf(text) == [i \in 1..Len(text) |-> charAt(text, i)]

\* the properties of a decorated puzzle object PuzzleCore reads
corePuzzle(puzzle) ==
    [id |-> puzzle.id, orientation |-> puzzle.orientation,
     fen |-> positionOf(puzzle.fen),
     moves |-> [i \in 1..Len(puzzle.moves) |-> notationOf(puzzle.moves[i])],
     hasTrap |-> puzzle.hasTrap,
     trapInfo |-> [name |-> puzzle.trapInfo.name,
                   trapMove |-> notationOf(puzzle.trapInfo.trapMove)],
     alternativePaths |->
        [i \in 1..Len(puzzle.alternativePaths) |->
            [move |-> notationOf(puzzle.alternativePaths[i].move),
             evaluation |-> puzzle.alternativePaths[i].evaluation]]]

\* a caller has the stored puzzle fork-medium-1 decorated by
\* enhancePuzzleWithTraps and hands the puzzle returned, the one with trap p,
\* to initializePuzzle
InitializeDecorated(p) ==
    \E outcome \in enhancePuzzleWithTraps(StoredForkMedium1, NoUserProfile) :
       /\ outcome.returned.trapInfo.name = p
       /\ corePuzzle(outcome.returned) = Puzzles[p]
       /\ generated' = [op |-> "enhancePuzzleWithTraps",
                        puzzle |-> StoredForkMedium1,
                        userProfile |-> NoUserProfile,
                        given |-> outcome.given,
                        result |-> outcome.returned]
       /\ LET s == initializePuzzle(p)
          IN /\ currentPuzzle' = s.currentPuzzle
             /\ moveHistory' = s.moveHistory
             /\ isEvaluating' = s.isEvaluating
             /\ chessEngine' = s.chessEngine
             /\ lastCall' = [op |-> "initializePuzzle",
                             result |-> BoardState(p, s.chessEngine)]
             /\ attempt' = [fed |-> 0, solvedBefore |-> Len(puzzleHistory)]
       /\ UNCHANGED <<puzzleHistory, hintCount, trackerVars, ratingCalc,
                      trapDatabase, puzzleDatabase, options, uiVars>>

\* PuzzleCore with the decorated stored puzzle
DecoratedNext ==
    \/ \E p \in DecoratedIds : InitializeDecorated(p)
    \/ \E from \in Squares, to \in Squares,
          promotionArg \in PromotionArgs :
          EvaluateMove(from, to, promotionArg)
    \/ ResetPuzzle

DecoratedSpec == Init /\ [][DecoratedNext]_vars

\* the ChessGuerilla controller: its buttons, the board and the timers
ControllerNext ==
    \/ \E p \in ControllerPuzzleIds : StartNewPuzzle(p)
    \/ ResetCurrentPuzzle
    \/ \E source \in LineSquares, target \in LineSquares :
          OnDrop(source, target)
    \/ \E i \in 1..Len(timers) : TimerFires(i)
    \/ ShowHint
    \/ ShowSolution

ControllerSpec == Init /\ [][ControllerNext]_vars

\* the board page of app.js
AppNext ==
    \/ PageLoaded
    \/ AppResetPuzzle
    \/ AppNextPuzzle
    \/ AppShowHint
    \/ \E source \in LineSquares, target \in LineSquares :
          AppOnDrop(source, target)
    \/ \E i \in 1..MaxPending : AppTimerFires(i)

AppSpec == Init /\ [][AppNext]_vars

\* the PuzzleGenerator and its PuzzleTraps
TrapNext ==
    \/ \E fen \in Positions, trapped \in BOOLEAN :
          EnhancePuzzleWithTraps(fen, trapped)
    \/ \E fen \in Positions, trapped \in BOOLEAN,
          themes \in StruggledThemes :
          EnhancePuzzleForProfile(fen, trapped, themes)
    \/ \E theme \in RequestedThemes, difficulty \in Difficulties :
          GeneratePuzzle(theme, difficulty)
    \/ \E theme \in RequestedThemes, difficulty \in Difficulties,
          includeTrap \in BOOLEAN :
          GeneratePuzzleWithTrap(theme, difficulty, includeTrap)
    \/ \E enable \in BOOLEAN : SetTrapGeneration(enable)

TrapSpec == Init /\ [][TrapNext]_vars

\* the program after construction, with one rating calculation asked
RatingInit ==
    /\ Constructed
    /\ ratingCalc \in RatingQuestions

\* the rating calculation on its own
RatingNext == CalculateRatingChange

RatingSpec == RatingInit /\ [][RatingNext]_vars

\* ------------------------------------------------------------- properties
\* the fields of the PuzzleCore and of its puzzle objects
CoreVars == <<currentPuzzle, puzzleHistory, moveHistory, isEvaluating,
              chessEngine, hintCount>>

\* the step is an evaluateMove call that got past the guard with a move the
\* engine accepted
LegalEvaluation ==
    /\ lastCall'.op = "evaluateMove"
    /\ lastCall'.result.kind = "valid"

\* the ply the line expects at the time of the call, <<>> past its end
ExpectedPly ==
    IF currentPuzzle # Null /\ Len(moveHistory) < Len(Puzzles[currentPuzzle].moves)
    THEN Puzzles[currentPuzzle].moves[Len(moveHistory) + 1] ELSE <<>>

\* the from and to squares of a ply, as a move object
PlySquares(ply) == [from |-> SubSeq(ply, 1, 2), to |-> SubSeq(ply, 3, 4)]

\* C1: once every user ply of the line was submitted in order after
\* initializePuzzle, the last call returned completed = true and
\* puzzleHistory is one entry longer, that entry being "solved"
C1_FullLineSolves ==
    (/\ currentPuzzle # Null
     /\ lastCall.op = "evaluateMove"
     /\ attempt.fed = NumUserPlies(Puzzles[currentPuzzle]))
    => /\ lastCall.result.kind = "valid"
       /\ lastCall.result.completed
       /\ Len(puzzleHistory) = attempt.solvedBefore + 1
       /\ puzzleHistory[Len(puzzleHistory)].result = "solved"

\* C2: a legal move that is the expected ply, with a ply left after it, is
\* answered with isCorrect and no completed, the next ply is played as the
\* opponent's reply, both plies are appended to moveHistory and the result
\* carries opponentMove and the position after both plies (so (e2,e4) on
\* ["e2e4","e7e5","f1c4"] is answered with opponentMove e7e5)
C2_CorrectMoveAutoReply ==
    [][(/\ LegalEvaluation
        /\ Len(moveHistory) + 1 < Len(Puzzles[currentPuzzle].moves)
        /\ SubmitsPly(Puzzles[currentPuzzle], Len(moveHistory),
                      lastCall'.result.move.from, lastCall'.result.move.to,
                      lastCall'.promotion))
       => LET moves == Puzzles[currentPuzzle].moves
              k == Len(moveHistory)
          IN /\ lastCall'.result.isCorrect
             /\ ~ lastCall'.result.completed
             /\ lastCall'.result.opponentMove = PlySquares(moves[k + 2])
             /\ moveHistory' = moveHistory \o <<moves[k + 1], moves[k + 2]>>
             /\ Len(chessEngine'.history) = Len(chessEngine.history) + 2
             /\ lastCall'.result.position = EngineFen(chessEngine')]_vars

\* C3: the notation of an evaluated move is from + to, followed by the
\* promotion piece exactly when the move promotes; a move submitted
\* without promotion argument that does not promote has the 4 characters
\* from + to
C3_NotationFourChars ==
    (lastCall.op = "evaluateMove" /\ lastCall.result.kind = "valid")
    => LET move == lastCall.result.move
       IN IF move.promotion # <<>>
          THEN lastCall.moveNotation = move.from \o move.to \o move.promotion
          ELSE lastCall.promotion = Undefined
               => lastCall.moveNotation = move.from \o move.to

\* the notation the code compares is the expected ply / the trap move
IsExpectedPly == lastCall'.moveNotation = ExpectedPly
IsTrapPly ==
    /\ Puzzles[currentPuzzle].hasTrap
    /\ lastCall'.moveNotation = Puzzles[currentPuzzle].trapInfo.trapMove

\* C4: a legal move that is neither the expected ply nor the trap move is
\* rolled back in full: moveHistory, the engine's position string and
\* puzzleHistory are what they were before the call
C4_WrongMoveRollback ==
    [][(LegalEvaluation /\ ~ IsExpectedPly /\ ~ IsTrapPly)
       => /\ moveHistory' = moveHistory
          /\ EngineFen(chessEngine') = EngineFen(chessEngine)
          /\ puzzleHistory' = puzzleHistory
          /\ ~ lastCall'.result.isCorrect
          /\ lastCall'.result.message = <<"Not the best move. Try again.">>]_vars

\* a wrong move was evaluated and rolled back in the middle of a line
C4_Witness ==
    /\ lastCall.op = "evaluateMove"
    /\ lastCall.result.kind = "valid"
    /\ ~ lastCall.result.isCorrect
    /\ ~ lastCall.result.isTrap
    /\ Len(moveHistory) = 2

\* the promotion value the engine is asked with: 'q' for a missing argument
AskedPromotion(promotionArg) ==
    IF promotionArg = Undefined THEN <<"q">> ELSE promotionArg

\* C5: a move the engine rejects is answered with {valid: false, message:
\* "Illegal move"} and changes nothing; only moves the engine accepts get
\* a valid result
C5_IllegalMoveNoMutation ==
    [][(/\ lastCall'.op = "evaluateMove"
        /\ currentPuzzle # Null
        /\ ~ isEvaluating)
       => /\ lastCall'.result.kind \in {"illegal", "valid"}
          /\ lastCall'.result.kind = "valid"
             => EngineLegal(chessEngine, lastCall'.result.move.from,
                            lastCall'.result.move.to,
                            AskedPromotion(lastCall'.promotion))
          /\ lastCall'.result.kind = "illegal"
             => /\ lastCall'.result = [kind |-> "illegal", valid |-> FALSE,
                                       message |-> <<"Illegal move">>]
                /\ UNCHANGED CoreVars]_vars

\* an illegal move was answered in the middle of a line
C5_Witness ==
    /\ lastCall.op = "evaluateMove"
    /\ lastCall.result.kind = "illegal"
    /\ Len(moveHistory) = 2

C7_HistoryWithinLine ==
    currentPuzzle # Null
    => Len(moveHistory) <= Len(Puzzles[currentPuzzle].moves)

C9_ResetIsInitialize ==
    [][(lastCall'.op = "resetPuzzle")
       => /\ currentPuzzle = Null
             => (lastCall'.result = Null /\ UNCHANGED CoreVars)
          /\ currentPuzzle # Null
             => /\ moveHistory' = <<>>
                /\ EngineFen(chessEngine') = Puzzles[currentPuzzle].fen
                /\ chessEngine'.history = <<>>
                /\ isEvaluating' = FALSE
                /\ currentPuzzle' = currentPuzzle
                /\ puzzleHistory' = puzzleHistory
                /\ lastCall'.result.position = Puzzles[currentPuzzle].fen
          /\ lastCall.op = "resetPuzzle" => UNCHANGED CoreVars]_vars

\* resetPuzzle was called on a puzzle that had been played before
C9_Witness ==
    /\ lastCall.op = "resetPuzzle"
    /\ currentPuzzle # Null
    /\ puzzleHistory # <<>>
    /\ moveHistory = <<>>

\* C10: the getHint call that follows initializePuzzle or resetPuzzle
\* returns the level-0 (vague) hint, whatever was asked before
C10_HintCountReset ==
    [][(/\ lastCall.op \in {"initializePuzzle", "resetPuzzle"}
        /\ currentPuzzle # Null
        /\ lastCall'.op = "getHint")
       => lastCall'.result.type = "vague"]_vars

\* the step is a getHint call made while the line is unfinished and the
\* piece of the expected ply stands on its square
LevelledHintCall ==
    /\ lastCall'.op = "getHint"
    /\ currentPuzzle # Null
    /\ Len(moveHistory) < Len(Puzzles[currentPuzzle].moves)
    /\ EngineGet(chessEngine,
                 SubSeq(Puzzles[currentPuzzle].moves[Len(moveHistory) + 1],
                        1, 2)) # NoPiece

\* the hint types in the order of their levels 0, 1, 2
HintTypes == <<"vague", "moderate", "specific">>

\* C11: a getHint call on an unfinished line whose expected piece exists
\* returns the hint of level min(hintCount, 2) for the count before the
\* call and raises that puzzle's hintCount by exactly 1, so successive calls
\* give vague, moderate, specific, specific, ...; no step lowers a count,
\* so the level never decreases
C11_HintLevelFollowsCount ==
    [][/\ LevelledHintCall
          => LET before == hintCount[currentPuzzle]
             IN /\ lastCall'.result.type
                     = HintTypes[(IF before < 2 THEN before ELSE 2) + 1]
                /\ Len(lastCall'.result.highlightSquares)
                     = (IF before < 2 THEN before ELSE 2)
                /\ hintCount'[currentPuzzle] = before + 1
                /\ \A p \in PuzzleIds \ {currentPuzzle} :
                      hintCount'[p] = hintCount[p]
       /\ \A p \in PuzzleIds : hintCount'[p] >= hintCount[p]]_vars

\* a fourth hint was asked on one puzzle: the level stayed at specific
C11_Witness ==
    /\ lastCall.op = "getHint"
    /\ currentPuzzle # Null
    /\ hintCount[currentPuzzle] = 4
    /\ lastCall.result.type = "specific"

\* ------------------------------------------------- the rating calculation
\* floor(q + 1/2) for a fraction q of positive denominator
RoundHalfUp(q) == (2 * q.n + q.d) \div (2 * q.d)

\* the larger and the smaller of two fractions
RatMax(a, b) == IF RatLess(a, b) THEN b ELSE a
RatMin(a, b) == IF RatLess(b, a) THEN b ELSE a

\* the factors of the stated formula as fractions, for the calculation c
StatedDifficultyFactor(c) ==
    RatAdd(FromInt(1),
           Rat(OrNumber(c.puzzle, "rating", 1500) - c.overall, 400))

StatedTimeFactor(c) ==
    IF ~c.correct THEN FromInt(1)
    ELSE IF c.timeSpent = 0 THEN Rat(3, 2)
    ELSE RatMax(Rat(1, 2),
                RatMin(Rat(3, 2),
                       Rat(OrNumber(c.puzzle, "expectedTime", 60),
                           c.timeSpent)))

StatedHintFactor(c) ==
    IF c.hintsUsed = 0 THEN FromInt(1)
    ELSE RatMax(Rat(1, 5), Rat(5 - c.hintsUsed, 5))

StatedRatingChange(c) ==
    RoundHalfUp(RatMul(RatMul(RatMul(FromInt(IF c.correct THEN 10 ELSE -5),
                                     StatedDifficultyFactor(c)),
                              StatedTimeFactor(c)),
                       StatedHintFactor(c)))

\* C12: the rating change returned by updateAfterPuzzle is the rounded
\* product baseChange x difficultyFactor x timeFactor x hintFactor of the
\* stated factors, and it is 18 for a correct answer on a puzzle rated 1500
\* by a user rated 1200 in the expected 60 seconds without a hint
C12_RatingChangeIsRoundedProduct ==
    ratingCalc.state = "returned"
    => /\ ratingCalc.ratingChange = StatedRatingChange(ratingCalc)
       /\ (/\ ratingCalc.correct
           /\ OrNumber(ratingCalc.puzzle, "rating", 1500) = 1500
           /\ ratingCalc.overall = 1200
           /\ ratingCalc.timeSpent = 60
           /\ OrNumber(ratingCalc.puzzle, "expectedTime", 60) = 60
           /\ ratingCalc.hintsUsed = 0)
          => ratingCalc.ratingChange = 18

\* C13: the hint factor of a calculation lies in [0.2, 1]: it is 1 without
\* a hint, 1 - 0.2 * hintsUsed (0.8, 0.6, 0.4) for 1 to 3 hints and exactly
\* 0.2 for 4 hints or more, so it is never zero or negative
C13_HintFactorValues ==
    ratingCalc.state = "returned"
    => LET h == ratingCalc.hintsUsed
           f == ratingCalc.hintFactor
       IN /\ ~DLess(f, Double0_2)
          /\ ~DLess(Double1, f)
          /\ DSign(f) = 1
          /\ h = 0 => f = Double1
          /\ h \in 1..3 => f = DDivInt(5 - h, 5)
          /\ h >= 4 => f = Double0_2

\* ------------------------------------------------------- the skill tracker
\* the step is an updateAfterPuzzle call on the tracker
UpdateStep == updates' = updates + 1

\* the last call on the tracker was updateAfterPuzzle
Updated == trackerCall.op = "updateAfterPuzzle"

\* C14: an updateAfterPuzzle call adds the returned ratingChange once to
\* ratings.overall and once to the rating of the puzzle's category (tactics
\* when the puzzle names none) whenever that category is a key of ratings,
\* whatever that rating is; the other ratings stay as they are
C14_RatingsAddedOnce ==
    [][UpdateStep
       => LET change == trackerCall'.result.ratingChange
              category == OrString(trackerCall'.puzzle, "category",
                                   "tactics")
              before == skillProfile.ratings
              after == skillProfile'.ratings
          IN /\ DOMAIN after = DOMAIN before
             /\ \A key \in DOMAIN before :
                   after[key] = before[key]
                                + (IF key \in {"overall", category}
                                   THEN change ELSE 0)]_vars

\* the labels of the ladder and the ratings at which the next one starts
LadderLabels ==
    <<"Beginner", "Intermediate", "Advanced", "Expert", "Master",
      "Grandmaster">>
LadderRungs == {1200, 1400, 1600, 1800, 2000}
LadderLabel(rating) ==
    LadderLabels[1 + Cardinality({rung \in LadderRungs : rating >= rung})]

\* C15: right after an updateAfterPuzzle call currentLevel is the ladder
\* label of the new ratings.overall
C15_LevelFollowsRating ==
    Updated
    => skillProfile.currentLevel = LadderLabel(skillProfile.ratings.overall)

\* an update has taken a fresh user below 1200: the level is Beginner again
C15_Witness ==
    /\ Updated
    /\ trackerCall.result.ratingChange < 0
    /\ skillProfile.ratings.overall \in 1000..1199
    /\ skillProfile.currentLevel = "Beginner"

\* C16: after an updateAfterPuzzle call struggledThemes holds exactly the
\* themes of themePerformance with at least 3 attempts and a success rate
\* below 0.5, each once with its rate and attempts, in order of
\* non-decreasing success rate (so a theme whose rate has reached 0.5 is
\* not in the list)
C16_StruggledThemes ==
    Updated
    => LET list == skillProfile.struggledThemes
           perf == skillProfile.themePerformance
           weak == {i \in 1..Len(perf) :
                      /\ perf[i].attempts >= 3
                      /\ 2 * perf[i].correct < perf[i].attempts}
       IN /\ Len(list) = Cardinality(weak)
          /\ \A i \in weak :
                \E k \in 1..Len(list) :
                   /\ list[k].theme = perf[i].theme
                   /\ list[k].attempts = perf[i].attempts
                   /\ list[k].successRate.n * perf[i].attempts
                         = perf[i].correct * list[k].successRate.d
          /\ \A j, k \in 1..Len(list) :
                j < k => /\ list[j].theme # list[k].theme
                         /\ ~RatLess(list[k].successRate,
                                     list[j].successRate)

\* after an update two struggled themes stand in the list in the reverse of
\* the order in which themePerformance holds them
C16_Witness ==
    /\ Updated
    /\ \E j, k \in 1..Len(skillProfile.struggledThemes) :
          /\ j < k
          /\ ThemeIndex(skillProfile.themePerformance,
                        skillProfile.struggledThemes[j].theme)
                > ThemeIndex(skillProfile.themePerformance,
                             skillProfile.struggledThemes[k].theme)
          /\ RatLess(skillProfile.struggledThemes[j].successRate,
                     skillProfile.struggledThemes[k].successRate)

\* the counts getRecommendedThemes is asked for
RecommendedCounts == 0..5

NoRepeat(list) ==
    \A i, j \in 1..Len(list) : i < j => list[i] # list[j]

\* C17: in every state of the tracker, those reached by updateAfterPuzzle
\* calls from a fresh profile among them, getRecommendedThemes(3) returns
\* exactly 3 themes, and getRecommendedThemes(count) returns at most count
\* themes and no theme twice; the recommendedThemes an update returns are
\* those of getRecommendedThemes(3)
C17_RecommendationsBounded ==
    /\ \A count \in RecommendedCounts :
          \A r \in {getRecommendedThemes(skillProfile, count)} :
             /\ Len(r) <= count
             /\ NoRepeat(r)
             /\ count = 3 => Len(r) = 3
    /\ Updated
       => /\ Len(trackerCall.result.recommendedThemes) = 3
          /\ NoRepeat(trackerCall.result.recommendedThemes)

\* a fresh user has attempted pins, then forks: pins is the focus, forks
\* the other attempted theme, and the update returned both once, followed
\* by the first theme of the fallback list that is not one of them
C17_Witness ==
    /\ Updated
    /\ ThemesOf(skillProfile.themePerformance) = <<"pins", "forks">>
    /\ skillProfile.themePerformance[1].attempts = 1
    /\ skillProfile.currentFocus = "pins"
    /\ trackerCall.result.recommendedThemes
          = <<"pins", "forks", "discovered attacks">>

\* the pool a recommended theme is taken from: 0 the focus, 1 the struggled
\* themes, 2 the other attempted themes, 3 the fallback list
PoolOf(profile, theme) ==
    IF theme = profile.currentFocus THEN 0
    ELSE IF theme \in Range(ThemesOf(profile.struggledThemes)) THEN 1
    ELSE IF ThemeIndex(profile.themePerformance, theme) # 0 THEN 2
    ELSE 3

\* the place of a theme in a list of entries or of names
PlaceIn(names, theme) == CHOOSE i \in 1..Len(names) : names[i] = theme

\* theme x has priority over theme y: it is of an earlier pool, or of the
\* same pool with a lower success rate (pool 1), fewer attempts (pool 2) or
\* an earlier place in the fallback list (pool 3)
HasPriority(profile, x, y) ==
    \/ PoolOf(profile, x) < PoolOf(profile, y)
    \/ /\ PoolOf(profile, x) = PoolOf(profile, y)
       /\ \/ /\ PoolOf(profile, x) = 1
             /\ LET names == ThemesOf(profile.struggledThemes)
                IN RatLess(profile.struggledThemes[PlaceIn(names, x)]
                              .successRate,
                           profile.struggledThemes[PlaceIn(names, y)]
                              .successRate)
          \/ /\ PoolOf(profile, x) = 2
             /\ LET names == ThemesOf(profile.themePerformance)
                IN profile.themePerformance[PlaceIn(names, x)].attempts
                      < profile.themePerformance[PlaceIn(names, y)].attempts
          \/ /\ PoolOf(profile, x) = 3
             /\ PlaceIn(generalThemes, x) < PlaceIn(generalThemes, y)

\* every theme getRecommendedThemes can take
Candidates(profile) ==
    (IF profile.currentFocus \in {Null, ""} THEN {}
     ELSE {profile.currentFocus})
    \cup Range(ThemesOf(profile.struggledThemes))
    \cup Range(ThemesOf(profile.themePerformance))
    \cup Range(generalThemes)

\* C18: getRecommendedThemes(count) lists themes by priority: the focus,
\* then the struggled themes by ascending success rate, then the other
\* attempted themes by ascending attempts, then the fallback list in its
\* order; no theme precedes a theme that has priority over it, and no theme
\* left out has priority over a theme listed
C18_RecommendationsByPriority ==
    \A count \in RecommendedCounts :
       \A r \in {getRecommendedThemes(skillProfile, count)} :
          /\ Range(r) \subseteq Candidates(skillProfile)
          /\ \A i, j \in 1..Len(r) :
                i < j => ~HasPriority(skillProfile, r[j], r[i])
          /\ \A x \in Candidates(skillProfile) \ Range(r) :
                \A i \in 1..Len(r) : ~HasPriority(skillProfile, x, r[i])

\* after an update all four pools give a theme: the focus skewers, the
\* struggled forks, rook endgames before pins by attempts, then the first
\* fallback theme not yet listed
C18_Witness ==
    /\ Updated
    /\ skillProfile.currentFocus = "skewers"
    /\ getRecommendedThemes(skillProfile, 5)
          = <<"skewers", "forks", "rook endgames", "pins",
              "discovered attacks">>

\* C19: a milestone that is achieved stays achieved in every later state,
\* whatever updateAfterPuzzle or importUserProgress call is made and however
\* low ratings.overall falls
C19_MilestonesStayAchieved ==
    [][\A i \in 1..Len(milestones) :
          milestones[i].achieved
          => /\ i <= Len(milestones')
             /\ milestones'[i].rating = milestones[i].rating
             /\ milestones'[i].achieved]_vars

\* an update has left a rating below the threshold of an achieved milestone
C19_Witness ==
    /\ Updated
    /\ \E i \in 1..Len(milestones) :
          /\ milestones[i].achieved
          /\ skillProfile.ratings.overall < milestones[i].rating

\* the ratings of the milestones of a list
RatingsOf(list) == {list[i].rating : i \in 1..Len(list)}

\* C20: when updateAfterPuzzle returns, every milestone whose rating is at
\* most the new ratings.overall is achieved, achievedMilestones holds
\* exactly the milestones that became achieved in this call, each once, and
\* none of them was returned by an earlier call
C20_MilestonesReportedOnce ==
    [][UpdateStep
       => LET returned == trackerCall'.result.achievedMilestones
          IN /\ \A i \in 1..Len(milestones') :
                   milestones'[i].rating <= skillProfile'.ratings.overall
                   => milestones'[i].achieved
             /\ RatingsOf(returned)
                   = {milestones[i].rating : i \in
                        {k \in 1..Len(milestones) :
                           /\ ~milestones[k].achieved
                           /\ milestones'[k].achieved}}
             /\ Cardinality(RatingsOf(returned)) = Len(returned)
             /\ RatingsOf(returned) \cap reported = {}
             /\ trackerCall'.result.newRating
                   = skillProfile'.ratings.overall]_vars

\* an update has returned the last milestone alone, the others having been
\* achieved before it
C20_Witness ==
    /\ Updated
    /\ Len(trackerCall.result.achievedMilestones) = 1
    /\ trackerCall.result.achievedMilestones[1].rating = 2000
    /\ \A i \in 1..Len(milestones) : milestones[i].achieved

\* ------------------------------------------------- lessons and the store
\* the lesson at a place of the learning path is allowed by a rating
Allowed(place, overall) == LearningPath[place].requiredRating <= overall

\* the lesson at a place of the learning path is allowed and not completed
Open(place, completed, overall) ==
    /\ Allowed(place, overall)
    /\ LearningPath[place].id \notin Range(completed)

\* the place is the one stated for getNextLesson: the first open lesson;
\* without one the last allowed lesson; without one the first lesson
StatedNextLesson(place, completed, overall) ==
    LET places == 1..Len(LearningPath)
    IN /\ place \in places
       /\ IF \E i \in places : Open(i, completed, overall)
          THEN /\ Open(place, completed, overall)
               /\ \A i \in 1..(place - 1) : ~Open(i, completed, overall)
          ELSE IF \E i \in places : Allowed(i, overall)
          THEN /\ Allowed(place, overall)
               /\ \A i \in (place + 1)..Len(LearningPath) :
                     ~Allowed(i, overall)
          ELSE place = 1

\* every theme of the lesson has 5 attempts or more in themePerformance and
\* a success rate of 0.6 or more
StatedThemesSolved(lesson, themePerformance) ==
    \A theme \in Range(lesson.themes) :
       \E i \in 1..Len(themePerformance) :
          /\ themePerformance[i].theme = theme
          /\ themePerformance[i].attempts >= 5
          /\ 10 * themePerformance[i].correct
                >= 6 * themePerformance[i].attempts

C22_NextLesson ==
    trackerCall.op = "getNextLesson"
    => /\ StatedNextLesson(currentLessonIndex + 1, completedLessons,
                           skillProfile.ratings.overall)
       /\ trackerCall.result = LearningPath[currentLessonIndex + 1].id

\* getNextLesson has returned a completed lesson other than the first, no
\* lesson being open
C22_Witness ==
    /\ trackerCall.op = "getNextLesson"
    /\ trackerCall.result = "basic-tactics-2"
    /\ currentLessonIndex = 2
    /\ "basic-tactics-2" \in Range(completedLessons)

\* the step is an importUserProgress call
ImportStep == trackerCall'.op = "importUserProgress"

\* a tracker just constructed
FreshTracker ==
    [skillProfile |-> NewUserSkillProfile,
     completedLessons |-> <<>>,
     currentLessonIndex |-> 0,
     milestones |-> Milestones]

\* the profile and the lessons of the tracker after are those of before
SameProgress(before, after) ==
    /\ after.skillProfile.ratings = before.skillProfile.ratings
    /\ after.skillProfile.themePerformance
          = before.skillProfile.themePerformance
    /\ after.skillProfile.solvedPuzzles = before.skillProfile.solvedPuzzles
    /\ after.skillProfile.struggledThemes
          = before.skillProfile.struggledThemes
    /\ after.skillProfile.currentFocus = before.skillProfile.currentFocus
    /\ after.skillProfile.currentLevel = before.skillProfile.currentLevel
    /\ after.completedLessons = before.completedLessons
    /\ after.currentLessonIndex = before.currentLessonIndex

\* C23: importUserProgress(exportUserProgress()) on a tracker returns true
\* and leaves ratings, themePerformance, solvedPuzzles, struggledThemes,
\* currentFocus, currentLevel, completedLessons and currentLessonIndex as
\* they were, and the same export imported into a fresh tracker of the user
\* gives it those values
C23_ExportImportRoundTrip ==
    [][ImportStep /\ trackerCall'.progress = exportUserProgress(TrackerState)
       => /\ trackerCall'.result = TRUE
          /\ SameProgress(TrackerState,
                          [skillProfile |-> skillProfile',
                           completedLessons |-> completedLessons',
                           currentLessonIndex |-> currentLessonIndex'])
          /\ LET fresh == importUserProgress(FreshTracker,
                                             trackerCall'.progress)
             IN /\ fresh.result = TRUE
                /\ SameProgress(TrackerState, fresh)]_vars

\* the tracker is left as it was by the step
TrackerUntouched ==
    UNCHANGED <<skillProfile, completedLessons, currentLessonIndex,
                milestones>>

\* C24: importUserProgress of a well-formed snapshot whose userId is not the
\* tracker's returns false and leaves the skill profile, completedLessons,
\* currentLessonIndex and the milestones as they were
C24_ForeignSnapshotRejected ==
    [][/\ ImportStep
       /\ Has(trackerCall'.progress, "userId")
       /\ trackerCall'.progress.userId # UserId
       => /\ trackerCall'.result = FALSE
          /\ TrackerUntouched]_vars

\* a tracker with attempts of its own has rejected the snapshot of another
\* user
C24_Witness ==
    /\ trackerCall.op = "importUserProgress"
    /\ trackerCall.progress = ForeignProgress
    /\ trackerCall.result = FALSE
    /\ updates > 0
    /\ skillProfile # ForeignProgress.skillProfile
    /\ skillProfile.themePerformance # <<>>

\* C25: whenever importUserProgress returns false, for a text that does not
\* parse, a snapshot of another user, or a snapshot of this user without its
\* skillProfile or with a null in milestones, the tracker is what it was
\* before the call
C25_FailedImportChangesNothing ==
    [][ImportStep /\ trackerCall'.result = FALSE => TrackerUntouched]_vars

\* C28: updateAfterPuzzle never adds a puzzle id to solvedPuzzles twice: an
\* attempt on an id already in the list leaves the list as it is, a new id is
\* appended once, and no id is in the list twice
C28_SolvedPuzzlesOnce ==
    [][UpdateStep
       => LET id == trackerCall'.puzzle.id
              before == skillProfile.solvedPuzzles
              after == skillProfile'.solvedPuzzles
          IN /\ id \in Range(before) => after = before
             /\ id \notin Range(before) => after = Append(before, id)
             /\ NoRepeat(after)]_vars

\* a failed attempt was made on a puzzle solved before
C28_Witness ==
    /\ Updated
    /\ updates = 2
    /\ ~trackerCall.correct
    /\ skillProfile.solvedPuzzles = <<trackerCall.puzzle.id>>
    /\ \E i \in 1..Len(skillProfile.themePerformance) :
          /\ skillProfile.themePerformance[i].attempts = 2
          /\ skillProfile.themePerformance[i].correct = 1

\* C29: ratings.overall has no floor, every updateAfterPuzzle call with
\* correct = false lowering it strictly: the rating change of a failed
\* puzzle is below 0, for a fresh profile (overall 1200) and for every other
C29_EveryLossLowersOverall ==
    ratingCalc.state = "returned" /\ ~ratingCalc.correct
    => ratingCalc.overall + ratingCalc.ratingChange < ratingCalc.overall

\* ------------------------------------------------- traps and the generator
\* the last call was enhancePuzzleWithTraps
Enhanced == generated.op = "enhancePuzzleWithTraps"

\* the name, trapMove, correctDefense, followUp and explanation of a trap
StatedTrapInfo(trap) ==
    [name |-> trap.name, trapMove |-> trap.trapMove,
     correctDefense |-> trap.correctDefense, followUp |-> trap.followUp,
     explanation |-> trap.explanation]

\* the entry of alternativePaths stated for a trap
StatedPath(trap) ==
    [move |-> trap.trapMove, response |-> trap.correctDefense,
     evaluation |-> "mistake", explanation |-> trap.explanation]

\* the traps of all catalogues
AllTraps ==
    UNION {Range(trapDatabase[category]) : category \in DOMAIN trapDatabase}

\* the fields enhancePuzzleWithTraps writes
TrapFields == {"hasTrap", "trapInfo", "alternativePaths"}

\* C26: enhancePuzzleWithTraps leaves the puzzle object it is given, its
\* alternativePaths included, as it was, and returns a copy of it with
\* hasTrap true, trapInfo the name, trapMove, correctDefense, followUp and
\* explanation of one trap of the catalogue, and alternativePaths the list of
\* the puzzle followed by the one entry stated for that trap
C26_EnhanceCopies ==
    Enhanced
    => /\ generated.given = generated.puzzle
       /\ DOMAIN generated.result = DOMAIN generated.puzzle \cup TrapFields
       /\ \A key \in DOMAIN generated.puzzle \ TrapFields :
             generated.result[key] = generated.puzzle[key]
       /\ generated.result.hasTrap = TRUE
       /\ \E trap \in AllTraps :
             /\ generated.result.trapInfo = StatedTrapInfo(trap)
             /\ generated.result.alternativePaths
                   = OrObject(generated.puzzle, "alternativePaths", <<>>)
                     \o <<StatedPath(trap)>>

\* a puzzle that had a trap and one alternative path was enhanced with
\* another trap: the copy has two paths, the puzzle given still has one
C26_Witness ==
    /\ Enhanced
    /\ Has(generated.puzzle, "alternativePaths")
    /\ Len(generated.given.alternativePaths) = 1
    /\ Len(generated.result.alternativePaths) = 2
    /\ generated.result.trapInfo # generated.given.trapInfo
    /\ generated.result.alternativePaths[2].move
          = generated.result.trapInfo.trapMove

\* the letters of the pieces in a position
PieceLetters ==
    {"p", "n", "b", "r", "q", "k", "P", "N", "B", "R", "Q", "K"}

\* the number of pieces of a position: the piece letters before its first
\* space
StatedPieces(fen) ==
    LET spaces == {i \in 1..Len(fen) : SubSeq(fen, i, i) = " "}
        end == IF spaces = {} THEN Len(fen) + 1
               ELSE CHOOSE i \in spaces : \A j \in spaces : i <= j
    IN Cardinality({i \in 1..(end - 1) : SubSeq(fen, i, i) \in PieceLetters})

\* the catalogue stated for a number of pieces
StatedCatalogue(pieces) ==
    Range(trapDatabase[IF pieces <= 10 THEN "endgameTraps"
                       ELSE IF pieces <= 20 THEN "middlegameTraps"
                       ELSE "openingTraps"])

\* the traps of a catalogue whose explanation contains one of the first three
\* struggled themes of the profile, the case of letters apart
StatedMatches(catalogue, profile) ==
    {trap \in catalogue :
       \E k \in 1..Min(3, Len(profile.struggledThemes)) :
          includes(toLowerCase(trap.explanation),
                   toLowerCase(profile.struggledThemes[k].theme))}

\* C27: the trap enhancePuzzleWithTraps attaches is of the catalogue of the
\* phase of the position, endgame up to 10 pieces, middlegame from 11 to 20,
\* opening above, with a profile or without; and with a profile some of whose
\* three weakest themes occurs in the explanation of a trap of that catalogue,
\* the case of letters apart, the trap is one of those traps
C27_TrapOfThePhase ==
    Enhanced
    => \E catalogue \in {StatedCatalogue(StatedPieces(generated.puzzle.fen))} :
          /\ \E trap \in catalogue :
                generated.result.trapInfo = StatedTrapInfo(trap)
          /\ generated.userProfile # NoUserProfile
             => \E matches \in {StatedMatches(catalogue,
                                               generated.userProfile)} :
                   matches # {}
                   => \E trap \in matches :
                         generated.result.trapInfo = StatedTrapInfo(trap)

\* a position of 20 pieces was enhanced for a profile whose theme "Forking"
\* occurs, in small letters, in the explanation of one of the two middlegame
\* traps
C27_Witness ==
    /\ Enhanced
    /\ StatedPieces(generated.puzzle.fen) = 20
    /\ generated.userProfile # NoUserProfile
    /\ generated.userProfile.struggledThemes # <<>>
    /\ generated.userProfile.struggledThemes[1].theme = "Forking"
    /\ generated.result.trapInfo.name = "Double Bishop Sacrifice"

\* C30: generatePuzzle called with includeTrap false returns a puzzle without
\* hasTrap, for every theme and difficulty, those without a stored puzzle
\* included; and after setTrapGeneration(false) no puzzle generated has a
\* trap, whatever includeTrap is
C30_IncludeTrapHonoured ==
    generated.op = "generatePuzzle"
    => /\ (Has(generated.args, "includeTrap")
           /\ generated.args.includeTrap = FALSE)
          => ~Has(generated.result, "hasTrap")
       /\ ~generated.includeTraps => ~Has(generated.result, "hasTrap")

\* C31: isEvaluating is false whenever evaluateMove has returned, whichever
\* return path was taken, so a call made while a puzzle is loaded is never
\* dropped by the guard: it gets a result object, illegal or valid
C31_FlagClearedOnReturn ==
    [][lastCall'.op = "evaluateMove"
       => /\ ~isEvaluating'
          /\ currentPuzzle # Null => lastCall'.result # NullResult]_vars

\* a legal move was evaluated right after a correct move with its reply, on
\* a core that has solved a puzzle before
C31_Witness ==
    /\ lastCall.op = "evaluateMove"
    /\ lastCall.result.kind = "valid"
    /\ Len(moveHistory) >= 2
    /\ Len(puzzleHistory) >= 1
    /\ ~isEvaluating

\* C33: whenever evaluateMove returns with the line unfinished, moveHistory
\* has an even length, so the next expected ply is one of the user's; a
\* reply played for the opponent is a ply at an odd index of the line,
\* also after a trap move was kept in moveHistory
C33_UserPlyIsNext ==
    (/\ lastCall.op = "evaluateMove"
     /\ lastCall.result.kind = "valid"
     /\ currentPuzzle # Null)
    => /\ Len(moveHistory) < Len(Puzzles[currentPuzzle].moves)
          => Len(moveHistory) % 2 = 0
       /\ lastCall.result.opponentMove # AbsentMove
          => (Len(moveHistory) - 1) % 2 = 1

\* C34: the sign of the rating change follows the outcome: a puzzle solved
\* never gives a negative change and a puzzle failed never a positive one,
\* whatever the rating of the puzzle and the overall rating of the profile
C34_SignFollowsOutcome ==
    ratingCalc.state = "returned"
    => /\ ratingCalc.correct => ratingCalc.ratingChange >= 0
       /\ ~ratingCalc.correct => ratingCalc.ratingChange <= 0

\* C35: in every state of the profile, fresh, after updateAfterPuzzle and
\* after an importUserProgress that returned true, currentLevel is the
\* ladder label of ratings.overall
C35_LevelAlwaysFollowsRating ==
    (trackerCall.op = "importUserProgress" => trackerCall.result = TRUE)
    => skillProfile.currentLevel = LadderLabel(skillProfile.ratings.overall)

\* C40: in every state of the profile no theme is returned by both
\* getStrengthThemes(n) and getWeaknessThemes(n), so the strengths and the
\* weaknesses of the summary are disjoint
C40_StrengthsApartFromWeaknesses ==
    trackerCall.op = "getThemeLists"
    => Range(trackerCall.strengthThemes)
          \cap Range(trackerCall.weaknessThemes) = {}

\* the step is a loadUserData call that found an export of the tracker
LoadStep == LoadUserData /\ localStorage.progress # NoItem

\* the ratings of the milestones of a list that are achieved
AchievedRatings(list) ==
    {list[i].rating : i \in {k \in 1..Len(list) : list[k].achieved}}

\* C39: importing a snapshot the tracker exported earlier restores that
\* state whatever happened in between: currentLessonIndex, currentFocus,
\* completedLessons and the set of achieved milestones are those of the
\* export
C39_ImportRestoresExport ==
    [][LoadStep
       => /\ currentLessonIndex' = localStorage.progress.currentLessonIndex
          /\ skillProfile'.currentFocus
                = localStorage.progress.skillProfile.currentFocus
          /\ completedLessons' = localStorage.progress.completedLessons
          /\ AchievedRatings(milestones')
                = AchievedRatings(localStorage.progress.milestones)]_vars

\* ------------------------------------------------- ChessGuerilla: buttons
\* the puzzle handed out by the last startNewPuzzle had its solution shown
\* or was solved
AlreadyScored ==
    \E i \in 1..Len(Outcomes) : Outcomes[i] \in {"shown", "solved"}

\* the Solution button is pressed on a puzzle
SolutionShown ==
    /\ controllerCall'.op = "showSolution"
    /\ currentPuzzle # Null
    /\ ShowSolution

\* C38: showSolution on a puzzle whose solution was shown before, or that
\* was solved before, does not update the tracker again: the skill profile
\* (ratings.overall, the theme's attempts) and puzzlesFailed stay as they
\* were
C38_SolutionScoredOnce ==
    [][(SolutionShown /\ AlreadyScored)
          => /\ skillProfile' = skillProfile
             /\ updates' = updates
             /\ sessionStats'.puzzlesFailed = sessionStats.puzzlesFailed]_vars

\* a reset callback fires that was scheduled in an attempt that has ended
StaleReset ==
    \E i \in 1..Len(timers) :
       /\ timers[i].kind = "reset"
       /\ timers[i].stale
       /\ TimerFires(i)

RECURSIVE LinePosition(_, _)
LinePosition(puzzle, k) ==
    IF k = 0 THEN EngineLoad(puzzle.fen)
    ELSE EngineMove(LinePosition(puzzle, k - 1),
                    SubSeq(puzzle.moves[k], 1, 2),
                    SubSeq(puzzle.moves[k], 3, 4), <<"q">>)

\* the positions the game went through, the present one last
PositionsOf(game) == Append(game.history, EngineFen(game))

\* the number of solution plies applied to the game: the positions of the
\* game follow the line of the puzzle for that many plies
AppliedPlies(a) ==
    LET puzzle == appPuzzle(a)
        positions == PositionsOf(a.game)
        follows(k) == \A j \in 0..k :
                         positions[j + 1] = EngineFen(LinePosition(puzzle, j))
    IN CHOOSE k \in 0..Len(puzzle.moves) :
          /\ k < Len(positions)
          /\ follows(k)
          /\ \A m \in (k + 1)..Len(puzzle.moves) :
                ~(m < Len(positions) /\ follows(m))

\* a callback runs that was scheduled before the puzzle was loaded
StaleAppTimer ==
    \E i \in 1..Len(app.timers) :
       /\ app.timers[i].stale
       /\ AppTimerFires(i)

\* C37: a callback scheduled before the present puzzle was loaded alters
\* neither the game nor movesCount, and movesCount is always the number of
\* solution plies applied to the game
C37_TimersStayWithTheirLoad ==
    [][/\ (app.loaded /\ StaleAppTimer)
             => /\ app'.game = app.game
                /\ app'.movesCount = app.movesCount
       /\ app'.loaded => app'.movesCount = AppliedPlies(app')]_vars

\* ------------------------------------------------- decorated puzzles
\* C32: no evaluateMove result on a puzzle decorated by
\* enhancePuzzleWithTraps reports the move as correct and as a trap at once
C32_CorrectOrTrapNotBoth ==
    (lastCall.op = "evaluateMove" /\ lastCall.result.kind = "valid")
       => ~(lastCall.result.isCorrect /\ lastCall.result.isTrap)

====
